---- MODULE Spec2Model ----
(***************************************************************************)
(* PyGnome particle store and weatherers: SpillContainer (with one        *)
(* substance the per-substance data aliases the main store, with several  *)
(* it is a set of working copies), IntrinsicProps.update with the Fay     *)
(* gravity-viscous spreading, Skimmer, Burn, Dispersion, driven step by   *)
(* step.                                                                   *)
(*                                                                         *)
(* Numbers are exact rationals <<n, d>> in lowest terms with d >= 0; the  *)
(* IEEE values the code can produce by dividing by zero are kept:         *)
(* <<1,0>> = +inf, <<-1,0>> = -inf, <<0,0>> = NaN.                         *)
(***************************************************************************)
EXTENDS Integers, Sequences, FiniteSets, TLC

----------------------------------------------------------------------------
(* exact arithmetic *)

Abs(x) == IF x < 0 THEN -x ELSE x

Sgn(x) == IF x < 0 THEN -1 ELSE IF x > 0 THEN 1 ELSE 0

RECURSIVE GCD(_, _)
GCD(a, b) == IF b = 0 THEN a ELSE GCD(b, a % b)

Norm(n, d) ==
    IF d = 0 THEN <<Sgn(n), 0>>
    ELSE LET g == GCD(Abs(n), Abs(d))
         IN  <<Sgn(d) * Sgn(n) * (Abs(n) \div g), Abs(d) \div g>>

R(i) == <<i, 1>>

NaN == <<0, 0>>

IsNaN(a) == a = NaN

IsFinite(a) == a[2] # 0

RNeg(a) == <<-a[1], a[2]>>

RAdd(a, b) ==
    IF a[2] = 0 \/ b[2] = 0
    THEN IF IsNaN(a) \/ IsNaN(b) THEN NaN
         ELSE IF a[2] = 0 /\ b[2] = 0
              THEN (IF a[1] = b[1] THEN a ELSE NaN)
              ELSE (IF a[2] = 0 THEN a ELSE b)
    ELSE LET g == GCD(a[2], b[2])
         IN  Norm(a[1] * (b[2] \div g) + b[1] * (a[2] \div g),
                  (a[2] \div g) * b[2])

RSub(a, b) == RAdd(a, RNeg(b))

RMul(a, b) ==
    IF a[2] = 0 \/ b[2] = 0
    THEN <<Sgn(a[1]) * Sgn(b[1]), 0>>
    ELSE LET g1 == GCD(Abs(a[1]), b[2])
             g2 == GCD(Abs(b[1]), a[2])
         IN  Norm((a[1] \div g1) * (b[1] \div g2),
                  (a[2] \div g2) * (b[2] \div g1))

RInv(a) == IF a[1] < 0 THEN <<-a[2], -a[1]>> ELSE <<a[2], a[1]>>

RDiv(a, b) == RMul(a, RInv(b))

\* IEEE comparisons: every comparison with NaN is false
REq(a, b) == ~IsNaN(a) /\ ~IsNaN(b) /\ a = b

RLt(a, b) ==
    /\ ~IsNaN(a)
    /\ ~IsNaN(b)
    /\ IF a[2] = 0 \/ b[2] = 0
       THEN (IF a[2] = 0 THEN a[1] ELSE 0) < (IF b[2] = 0 THEN b[1] ELSE 0)
       ELSE LET g == GCD(a[2], b[2])
            IN  a[1] * (b[2] \div g) < b[1] * (a[2] \div g)

RLe(a, b) == RLt(a, b) \/ REq(a, b)

RGe(a, b) == RLe(b, a)

RECURSIVE RSum(_)
RSum(s) == IF s = <<>> THEN R(0) ELSE RAdd(s[1], RSum(Tail(s)))

RGt(a, b) == RLt(b, a)

\* floor(log2(n / d)) for integers n, d > 0
RECURSIVE ILog2(_, _)
ILog2(n, d) ==
    IF n >= d
    THEN (IF n >= 2 * d THEN 1 + ILog2(n, 2 * d) ELSE 0)
    ELSE ILog2(2 * n, d) - 1

\* binary exponent of a finite a > 0: the e with 2^e <= a < 2^(e+1)
Exponent(a) == ILog2(a[1], a[2])

\* 2^e
Exp2(e) == IF e >= 0 THEN <<2 ^ e, 1>> ELSE <<1, 2 ^ (0 - e)>>

----------------------------------------------------------------------------
(* bounds and inputs *)

\* time_step handed to every prepare_for_model_step / weather_elements
TimeStep == 3

\* number of model steps of a run
MaxSteps == 3

\* particles released over a run
MaxLE == 3

\* particles one spill releases in one release_elements call
MaxRelease == 2

\* steps of the Burn-only run
BurnSteps == 4

\* oil_status codes used by the weatherers and the store
in_water == "in_water"

skim == "skim"

to_be_removed == "to_be_removed"

\* model time is counted in units of 5 minutes; the age column is kept in
\* seconds
SecondsPerUnit == 300

\* steps of the runs that exercise the spreading model
SpreadSteps == 2

\* substances: ordered mass fractions summing to 1, the density and the
\* viscosity at the water temperature (None when the oil has no viscosity
\* data)
OilA == [mass_fraction |-> <<Norm(1, 4), Norm(3, 4)>>, density |-> 900,
         viscosity |-> R(5)]

OilEq5 == [mass_fraction |-> [k \in 1..5 |-> Norm(1, 5)], density |-> 900,
           viscosity |-> R(5)]

\* an oil of one component without viscosity data
OilB == [mass_fraction |-> <<R(1)>>, density |-> 800, viscosity |-> "None"]

\* the substance of a spill that carries None
NoneSubstance == [mass_fraction |-> <<>>, density |-> 0, viscosity |-> "None"]

\* an oil exactly as dense as the water, and one denser than the water
OilNeutral == [mass_fraction |-> <<Norm(1, 4), Norm(3, 4)>>,
               density |-> 1000, viscosity |-> R(5)]

OilHeavy == [mass_fraction |-> <<Norm(1, 4), Norm(3, 4)>>,
             density |-> 1100, viscosity |-> R(5)]

\* the Water object: density in kg/m^3, kinematic viscosity in m^2/s
WaterDensity == 1000

WaterViscosity == Norm(1, 1000000)

\* values written to the frac_coverage column
FracCoverages == {R(0), Norm(1, 2)}

\* the spills of the container: all carry the same substance instance;
\* each releases particles of one mass
SpillMass == <<R(2), R(3)>>

NumSpills == Len(SpillMass)

Weatherers == {"skimmer", "burn", "dispersion"}

\* Skimmer configurations: amount in kg, efficiency, active window
SkimAmounts == {4, 12}

SkimEfficiency == Norm(1, 2)

SkimWindows ==
    { <<TimeStep, 2 * TimeStep>>,          \* aligned with the steps
      <<TimeStep + 1, TimeStep + 2>>,      \* inside one step
      <<1, TimeStep + 1>>,                 \* starts and stops mid-step
      <<0, 3 * TimeStep>> }

BurnWindow == <<0, 2 * TimeStep>>

DispersionWindow == <<TimeStep, 2 * TimeStep>>

----------------------------------------------------------------------------
VARIABLES
    pc,          \* position of the step driver
    todo,        \* weatherers the driver still has to call in this phase
    model_time,  \* start of the current step
    horizon,     \* number of steps of this run
    substance,   \* _substances_spills.substances
    sc,          \* the SpillContainer's spills, partition, types and columns
    data,        \* _substances_spills.data: per substance, array name -> copy
    error,       \* the exception that ended the last operation, or "none"
    last_id,     \* largest id given to a particle so far, -1 before the first
    le,          \* the particle store: one record per row, in row order
    num_new,     \* value returned by the last release_elements
    released,    \* particles released so far
    wd,          \* sc.weathering_data
    sk,          \* the Skimmer
    burn,        \* the Burn weatherer
    disp,        \* the Dispersion weatherer
    removed,     \* mass of the rows deleted by model_step_is_done
    skim_taken,  \* mass Skimmer.weather_elements took from the particles
    skim_short,  \* an active Skimmer found less mass than amount x efficiency
    op           \* the operation that produced this state

vars == <<pc, todo, model_time, horizon, substance, sc, data, error, last_id,
          le, num_new, released, wd, sk, burn, disp, removed, skim_taken,
          skim_short, op>>

Rows == 1..Len(le)

NumSubstances == Len(substance)

\* _oil_comp_array_len, shape[1] of mass_components: the largest
\* num_components of the substances
NumComp ==
    CHOOSE n \in {Len(substance[x].mass_fraction) : x \in 1..NumSubstances} :
        \A x \in 1..NumSubstances : Len(substance[x].mass_fraction) <= n

InitSkimmer(on, amount, w) ==
    [on |-> on, amount |-> amount, efficiency |-> SkimEfficiency,
     active_start |-> w[1], active_stop |-> w[2],
     rate |-> Norm(amount, w[2] - w[1]),
     timestep |-> R(0), active |-> FALSE, logged |-> FALSE]

InitWeatherer(on, w) ==
    [on |-> on, active_start |-> w[1], active_stop |-> w[2], active |-> FALSE]

\* the array types _reset_arrays declares, without positions,
\* next_positions, last_water_positions and age, which the container never
\* reads
DefaultArrayTypes == {"status_codes", "spill_num", "id", "mass"}

\* dtype of the declared array types
DType(name) ==
    IF name \in {"status_codes", "spill_num", "id", "substance"}
    THEN "int" ELSE "float"

\* _substances_spills = None
NoPartition ==
    [valid |-> FALSE, substances |-> <<>>, spills |-> <<>>, data |-> <<>>]

\* SpillContainer.__init__: no spills, rewind(), then _reset_arrays() once
\* more and no partition.  types is _array_types (name -> dtype), cols is
\* _data_arrays (name -> dtype and cells), gen tells which of two
\* dicts _data_arrays is bound to (_reset_arrays binds the other one),
\* comp_len is _oil_comp_array_len with 0 for None, wd is the
\* set of keys of weathering_data, setup tells that rewind or
\* prepare_for_model_run has been called since
ConstructedContainer ==
    [spills |-> <<>>,
     part |-> NoPartition,
     comp_len |-> 0,
     types |-> [n \in DefaultArrayTypes |-> DType(n)],
     cols |-> [n \in {} |-> <<>>],
     gen |-> 0,
     wd |-> {},
     setup |-> FALSE]

InitStore ==
    /\ sc = ConstructedContainer
    /\ pc = "run"
    /\ todo = {}
    /\ model_time = 0
    /\ le = <<>>
    /\ num_new = 0
    /\ released = 0
    /\ wd = [k \in {} |-> R(0)]
    /\ removed = R(0)
    /\ skim_taken = R(0)
    /\ skim_short = FALSE
    /\ error = "none"
    /\ last_id = -1
    /\ op = "init"

\* _set_substancespills: with one substance data[0] is the store itself,
\* which the model writes as "alias"; with several, data is a list of
\* empty dicts
InitData(subs) ==
    IF Len(subs) = 1 THEN <<"alias">> ELSE [x \in 1..Len(subs) |-> <<>>]

\* the Skimmer is on with any of the amounts and windows, or off (its
\* amount and window are then never read)
Init ==
    /\ InitStore
    /\ horizon = MaxSteps
    /\ substance = <<OilA>>
    /\ data = InitData(substance)
    /\ \/ \E a \in SkimAmounts, w \in SkimWindows :
              sk = InitSkimmer(TRUE, a, w)
       \/ sk = InitSkimmer(FALSE, 4, <<TimeStep, 2 * TimeStep>>)
    /\ burn = InitWeatherer(TRUE, BurnWindow)
    /\ disp = InitWeatherer(TRUE, DispersionWindow)

----------------------------------------------------------------------------
(* SpillContainer *)

Column(store, f) == [i \in 1..Len(store) |-> store[i][f]]

\* sc['mass'][mask].sum() with mask = (status_codes == st)
MassWithStatus(store, st) ==
    RSum(Column(SelectSeq(store, LAMBDA p : p.status = st), "mass"))

TotalMass(store) == RSum(Column(store, "mass"))

\* the substance of a spill: with one substance every spill carries it,
\* otherwise the spills carry the substances in turn
SubstanceOfSpill(spill_ix) ==
    IF NumSubstances = 1 THEN 1 ELSE ((spill_ix - 1) % NumSubstances) + 1

\* the keys of _data_arrays: the 'substance' array type is added only when
\* there is more than one substance
DataArrays ==
    {"id", "spill_num", "status_codes", "mass", "mass_components", "density",
     "viscosity", "init_mass", "age", "relative_bouyancy", "init_volume",
     "init_area", "area", "thickness", "frac_coverage"}
        \cup (IF NumSubstances > 1 THEN {"substance"} ELSE {})

\* the initial values of the columns of one new row
NewRow(id, spill_ix) ==
    LET row == [id |-> id,
                spill_num |-> spill_ix - 1,
                status |-> in_water,
                mass |-> SpillMass[spill_ix],
                mass_components |-> [k \in 1..NumComp |-> R(0)],
                density |-> 0,
                viscosity |-> R(0),
                init_mass |-> R(0),
                age |-> 0,
                relative_bouyancy |-> R(0),
                init_volume |-> R(0),
                init_area |-> R(0),
                area |-> R(0),
                thickness |-> R(0),
                frac_coverage |-> R(1),
                updated |-> FALSE,
                burns |-> 0]
    IN  IF "substance" \in DataArrays
        THEN [a \in DOMAIN row \cup {"substance"} |->
                 IF a = "substance" THEN 0 ELSE row[a]]
        ELSE row

\* SpillContainer._append_data_arrays followed by
\* Spill.set_newparticle_values for one spill: n rows are appended; every
\* column gets its initial value (mass_components and density zero, status
\* in_water), the id column counts on from the last id of the store, and the
\* spill sets the mass of its particles.
AppendRows(store, spill_ix, n) ==
    LET first == IF Len(store) > 0 THEN store[Len(store)].id + 1 ELSE 0
    IN  store \o [i \in 1..n |-> NewRow(first + i - 1, spill_ix)]

\* the spills of substance x, in order
RECURSIVE ReleaseSpills(_, _, _, _)
ReleaseSpills(store, spill_ix, nrel, x) ==
    IF spill_ix > NumSpills THEN store
    ELSE ReleaseSpills(IF SubstanceOfSpill(spill_ix) = x /\ nrel[spill_ix] > 0
                       THEN AppendRows(store, spill_ix, nrel[spill_ix])
                       ELSE store,
                       spill_ix + 1, nrel, x)

RECURSIVE SumTo(_, _)
SumTo(f, n) == IF n = 0 THEN 0 ELSE f[n] + SumTo(f, n - 1)

\* num_rel_by_substance of release_elements
NumRelBySubstance(nrel, x) ==
    SumTo([sp \in 1..NumSpills |->
              IF SubstanceOfSpill(sp) = x THEN nrel[sp] ELSE 0], NumSpills)

\* the labelling that writes the index to every row of the store
SetSubstanceIndex_All(store, num, ix) ==
    IF NumSubstances > 1 /\ num > 0
    THEN [i \in 1..Len(store) |-> [store[i] EXCEPT !.substance = ix]]
    ELSE store

\* _update_substance_array_reset_data on the store: the last num rows get
\* the index of their substance
SetSubstanceIndex(store, num, ix) ==
    IF NumSubstances > 1 /\ num > 0
    THEN [i \in 1..Len(store) |->
             IF i > Len(store) - num
             THEN [store[i] EXCEPT !.substance = ix] ELSE store[i]]
    ELSE store

\* the loop of release_elements over the substances
RECURSIVE ReleaseSubstances(_, _, _)
ReleaseSubstances(store, x, nrel) ==
    IF x > NumSubstances THEN store
    ELSE ReleaseSubstances(
             SetSubstanceIndex(ReleaseSpills(store, 1, nrel, x),
                               NumRelBySubstance(nrel, x), x - 1),
             x + 1, nrel)

\* largest id of the rows from..Len(store), or low if there is none
MaxId(store, from, low) ==
    IF from > Len(store) THEN low
    ELSE CHOOSE m \in {store[i].id : i \in from..Len(store)} \cup {low} :
             /\ m >= low
             /\ \A i \in from..Len(store) : m >= store[i].id

\* SpillContainer.release_elements: nrel[s] is what
\* spill.num_elements_to_release returns for spill s; with several
\* substances the working copy of every substance is reset
release_elements(nrel) ==
    /\ le' = ReleaseSubstances(le, 1, nrel)
    /\ num_new' = SumTo(nrel, NumSpills)
    /\ released' = released + SumTo(nrel, NumSpills)
    /\ data' = IF NumSubstances > 1
               THEN [x \in 1..NumSubstances |-> <<>>] ELSE data
    /\ last_id' = MaxId(le', Len(le) + 1, last_id)

\* the deletion that also takes the rows marked for skimming
DeleteRemoved_AlsoSkim(store) ==
    SelectSeq(store, LAMBDA p : p.status \notin {to_be_removed, skim})

\* np.delete(self[key], to_be_removed, axis=0) for every column
DeleteRemoved(store) == SelectSeq(store, LAMBDA p : p.status # to_be_removed)

\* the column _reset_substances_spills_data reads
ResetDataKey == "substances"

\* the exception model_step_is_done ends with: with several substances
\* _reset_substances_spills_data reads self[ResetDataKey] before the first
\* column is deleted
model_step_is_done_error(store) ==
    IF /\ \E i \in 1..Len(store) : store[i].status = to_be_removed
       /\ NumSubstances > 1
       /\ ResetDataKey \notin DataArrays
    THEN "KeyError" ELSE "none"

\* SpillContainer.model_step_is_done: the store it leaves
model_step_is_done(store) ==
    IF model_step_is_done_error(store) = "none"
    THEN DeleteRemoved(store) ELSE store

----------------------------------------------------------------------------
(* FayGravityViscous.  The products, quotients, roots and powers of the     *)
(* two area formulas are irrational; the model evaluates them on binary     *)
(* exponents, every factor rounded down to a power of two, so that a        *)
(* result is zero, positive, infinite or NaN exactly when the code's is and *)
(* has its order of magnitude.  Sums and the divisions that give thickness  *)
(* are exact.                                                               *)

\* spreading_const = (1.53, 1.21)
K1 == Norm(153, 100)

K2 == Norm(121, 100)

\* thickness_limit = .0001
thickness_limit == Norm(1, 10000)

\* constants.gravity and np.pi
Gravity == Norm(98, 10)

Pi == Norm(355, 113)

\* the constant 0.033 of dEddy
EddyConst == Norm(33, 1000)

\* _check_relative_bouyancy without the test
CheckRelativeBouyancy_Accept(rel_bouy) == "none"

\* FayGravityViscous._check_relative_bouyancy on one value
CheckRelativeBouyancy(rel_bouy) ==
    IF RLt(rel_bouy, R(0)) THEN "ValueError" ELSE "none"

\* FayGravityViscous.init_area past the check:
\* pi * (k2^4 / k1^2) * (V^5 * g * rb / nu^2) ^ (1/6); the root of a
\* negative number is NaN
init_area(water_viscosity, init_volume, relative_bouyancy) ==
    IF \/ IsNaN(init_volume)
       \/ RLt(RMul(init_volume, relative_bouyancy), R(0))
    THEN NaN
    ELSE IF init_volume = R(0) \/ relative_bouyancy = R(0) THEN R(0)
    ELSE IF ~IsFinite(init_volume) THEN <<1, 0>>
    ELSE Exp2(Exponent(Pi) + 4 * Exponent(K2) - 2 * Exponent(K1)
              + ((5 * Exponent(init_volume) + Exponent(Gravity)
                  + Exponent(relative_bouyancy)
                  - 2 * Exponent(water_viscosity)) \div 6))

\* dFay of update_area for a finite V >= 0 and age > 0:
\* k2^2 / 16 * (g * rb * V^2 / sqrt(nu * age))
dFay(water_viscosity, init_volume, relative_bouyancy, age) ==
    LET magnitude(rb) ==
            Exp2(2 * Exponent(K2) - 4 + Exponent(Gravity)
                 + Exponent(rb) + 2 * Exponent(init_volume)
                 - ((Exponent(water_viscosity) + Exponent(R(age))) \div 2))
    IN  IF init_volume = R(0) \/ relative_bouyancy = R(0) THEN R(0)
        ELSE IF RLt(relative_bouyancy, R(0))
             THEN RNeg(magnitude(RNeg(relative_bouyancy)))
             ELSE magnitude(relative_bouyancy)

\* dEddy of update_area for age > 0: 0.033 * age ^ (4/25)
dEddy(age) == Exp2(Exponent(EddyConst) + ((4 * Exponent(R(age))) \div 25))

\* init_area + (dFay + dEddy) * age
SpreadArea(water_viscosity, p, age) ==
    RAdd(p.init_area,
         RMul(RAdd(dFay(water_viscosity, p.init_volume, p.relative_bouyancy,
                        age),
                   dEddy(age)),
              R(age)))

\* update_area that starts from the current area, not from init_area
update_area_FromArea(water_viscosity, p) ==
    IF RGt(p.thickness, thickness_limit)
    THEN RMul(RAdd(p.area,
                   RSub(SpreadArea(water_viscosity, p, p.age), p.init_area)),
              p.frac_coverage)
    ELSE p.area

\* update_area without the thickness gate
update_area_NoGate(water_viscosity, p) ==
    RMul(SpreadArea(water_viscosity, p, p.age), p.frac_coverage)

\* FayGravityViscous.update_area on one row past the checks
\* (relative_bouyancy >= 0, age > 0): the new area
update_area(water_viscosity, p) ==
    IF RGt(p.thickness, thickness_limit)
    THEN RMul(SpreadArea(water_viscosity, p, p.age), p.frac_coverage)
    ELSE p.area

----------------------------------------------------------------------------
(* IntrinsicProps *)

WDKeys ==
    {"avg_density", "avg_viscosity", "floating", "amount_released",
     "skimmed", "burned", "dispersed"}

\* d[key] = value on a Python dict
SetKey(w, key, value) ==
    [k \in DOMAIN w \cup {key} |-> IF k = key THEN value ELSE w[k]]

\* IntrinsicProps.initialize and the prepare_for_model_run of the three
\* weatherers (sc.spills is not empty)
PrepareWeatheringData == [k \in WDKeys |-> R(0)]

\* the keys of IntrinsicProps.array_types that the model keeps (frac_water
\* and frac_lost are never written and stay 0)
IntrinsicArrays ==
    {"density", "viscosity", "mass_components", "mass", "init_volume",
     "init_mass", "area", "init_area", "relative_bouyancy", "frac_coverage",
     "thickness", "age"}

\* IntrinsicProps._set_relative_bouyancy
SetRelativeBouyancy(rho_oil) ==
    RDiv(R(WaterDensity - rho_oil), R(WaterDensity))

\* the per-row assignments of _init_new_particles without the
\* mass_components assignment
InitNewParticle_NoComponents(p, s) ==
    [p EXCEPT !.density = s.density,
              !.init_mass = p.mass,
              !.viscosity = IF s.viscosity # "None" THEN s.viscosity ELSE @,
              !.relative_bouyancy = SetRelativeBouyancy(s.density)]

\* the per-row assignments of IntrinsicProps._init_new_particles: density,
\* mass_components, init_mass, viscosity and relative_bouyancy
InitNewParticle(p, s) ==
    [p EXCEPT !.density = s.density,
              !.mass_components =
                  [k \in 1..NumComp |->
                      IF k <= Len(s.mass_fraction)
                      THEN RMul(s.mass_fraction[k], p.mass)
                      ELSE p.mass_components[k]],
              !.init_mass = p.mass,
              !.viscosity = IF s.viscosity # "None" THEN s.viscosity ELSE @,
              !.relative_bouyancy = SetRelativeBouyancy(s.density)]

\* new_LEs_mask of _update_intrinsic_props
NewLEs(rows) == {i \in 1..Len(rows) : rows[i].density = 0}

First(mask) == CHOOSE i \in mask : \A j \in mask : i <= j

\* _init_new_particles up to the call of init_area: the per-row values and
\* init_volume, the volume of the whole batch
InitNewVolume(rows, s) ==
    LET mask == NewLEs(rows)
        SetVolume(r1) ==
            LET volume == RSum([i \in 1..Len(rows) |->
                                  IF i \in mask
                                  THEN RDiv(r1[i].init_mass,
                                            R(r1[i].density))
                                  ELSE R(0)])
            IN  [i \in 1..Len(rows) |->
                    IF i \in mask THEN [r1[i] EXCEPT !.init_volume = volume]
                    ELSE r1[i]]
    IN  SetVolume([i \in 1..Len(rows) |->
                      IF i \in mask THEN InitNewParticle(rows[i], s)
                      ELSE rows[i]])

\* the exception _init_new_particles ends with: init_area checks the
\* relative_bouyancy of the first new row
InitNewError(rows, s) ==
    CheckRelativeBouyancy(
        InitNewParticle(rows[First(NewLEs(rows))], s).relative_bouyancy)

\* IntrinsicProps._init_new_particles: the rows it leaves
InitNewParticles(rows, s) ==
    LET mask == NewLEs(rows)
        SetArea(r2, a0) ==
            [i \in 1..Len(rows) |->
                IF i \in mask
                THEN [r2[i] EXCEPT !.init_area = a0,
                                   !.area = a0,
                                   !.thickness = RDiv(r2[i].init_volume, a0)]
                ELSE r2[i]]
        InitArea(r2, p) ==
            IF InitNewError(rows, s) # "none" THEN r2
            ELSE SetArea(r2, init_area(WaterViscosity, p.init_volume,
                                       p.relative_bouyancy))
        FirstNew(r2) == InitArea(r2, r2[First(mask)])
    IN  FirstNew(InitNewVolume(rows, s))

\* the viscosity assignment of _update_old_particles: frac_lost and
\* frac_water are 0, so v0 * exp(v0 * 1.5e3 * 0) * (1 + 0 / 1.187) ^ 2.49
OldViscosity(rows, old, s) ==
    [i \in 1..Len(rows) |->
        IF i \in old /\ s.viscosity # "None"
        THEN [rows[i] EXCEPT !.viscosity = s.viscosity] ELSE rows[i]]

\* the exception update_area ends with
UpdateOldError(rows, old) ==
    IF \E i \in old :
          CheckRelativeBouyancy(rows[i].relative_bouyancy) # "none"
    THEN "ValueError"
    ELSE IF \E i \in old : rows[i].age = 0 THEN "ValueError" ELSE "none"

\* IntrinsicProps._update_old_particles: the rows it leaves
UpdateOldParticles(rows, old, s) ==
    LET Spread(r1) ==
            IF UpdateOldError(rows, old) # "none" THEN r1
            ELSE [i \in 1..Len(rows) |->
                     IF i \in old
                     THEN LET a == update_area(WaterViscosity, r1[i])
                          IN  [r1[i] EXCEPT !.area = a,
                                            !.thickness =
                                                RDiv(r1[i].init_volume, a)]
                     ELSE r1[i]]
    IN  Spread(OldViscosity(rows, old, s))

\* the body of the loop of _update_intrinsic_props for one substance: the
\* exception it ends with
UpdateRowsError(rows, s) ==
    LET new == NewLEs(rows)
        old == (1..Len(rows)) \ new
        e1 == IF new # {} THEN InitNewError(rows, s) ELSE "none"
    IN  IF Len(rows) = 0 THEN "none"
        ELSE IF e1 # "none" THEN e1
        ELSE IF old # {} THEN UpdateOldError(rows, old)
        ELSE "none"

\* the body of the loop of _update_intrinsic_props for one substance: the
\* rows it leaves
UpdateRows(rows, s) ==
    LET new == NewLEs(rows)
        old == (1..Len(rows)) \ new
        Old(r1) ==
            IF Len(rows) = 0 THEN rows
            ELSE IF new # {} /\ InitNewError(rows, s) # "none" THEN r1
            ELSE IF old # {} THEN UpdateOldParticles(r1, old, s)
            ELSE r1
    IN  Old(IF new # {} THEN InitNewParticles(rows, s) ELSE rows)

\* the rows of a substance taken without the mask
SubstanceRows_All(store, ix) == store

\* self[array][self['substance'] == ix]
SubstanceRows(store, ix) == SelectSeq(store, LAMBDA p : p.substance = ix)

\* SpillContainer._set_substancedata: every array a substance's dict lacks
\* is copied from the store; the dict of the substance None is left alone
SetSubstanceData(store, d, arrays) ==
    [x \in 1..NumSubstances |->
        IF substance[x] = NoneSubstance THEN d[x]
        ELSE [a \in DOMAIN d[x] \cup arrays |->
                 IF a \in DOMAIN d[x] THEN d[x][a]
                 ELSE Column(SubstanceRows(store, x - 1), a)]]

\* the rows of the arrays of a working copy
DataRows(dx, arrays) ==
    [k \in 1..Len(dx["density"]) |-> [a \in arrays |-> dx[a][k]]]

\* the working copy with the arrays of rows put into it
PutRows(dx, rows, arrays) ==
    [a \in DOMAIN dx |-> IF a \in arrays THEN Column(rows, a) ELSE dx[a]]

\* the loop of _update_intrinsic_props over the working copies, from
\* substance x on: the copies it leaves
RECURSIVE UpdateCopies(_, _)
UpdateCopies(d, x) ==
    IF x > NumSubstances THEN d
    ELSE LET Rest(rows, d1) ==
                 IF UpdateRowsError(rows, substance[x]) # "none" THEN d1
                 ELSE UpdateCopies(d1, x + 1)
             Put(rows) ==
                 Rest(rows, [d EXCEPT ![x] =
                                PutRows(d[x], UpdateRows(rows, substance[x]),
                                        IntrinsicArrays)])
         IN  Put(DataRows(d[x], IntrinsicArrays))

\* the exception that loop ends with
RECURSIVE UpdateCopiesError(_, _)
UpdateCopiesError(d, x) ==
    IF x > NumSubstances THEN "none"
    ELSE LET Rest(rows, e) ==
                 IF e # "none" THEN e
                 ELSE UpdateCopiesError(
                          [d EXCEPT ![x] =
                              PutRows(d[x], UpdateRows(rows, substance[x]),
                                      IntrinsicArrays)],
                          x + 1)
             Check(rows) == Rest(rows, UpdateRowsError(rows, substance[x]))
         IN  Check(DataRows(d[x], IntrinsicArrays))

\* position of row i among the rows of its substance
RankInSubstance(store, i) ==
    Cardinality({j \in 1..i : store[j].substance = store[i].substance})

\* the write-back of the first substance only
UpdateFromSubstanceData_FirstOnly(store, d, arrays) ==
    [i \in 1..Len(store) |->
        [a \in DOMAIN store[i] |->
            IF a \in arrays /\ store[i].substance = 0
            THEN d[1][a][RankInSubstance(store, i)]
            ELSE store[i][a]]]

\* SpillContainer.update_from_substancedata with several substances:
\* self[array][mask] = data[array][:] for every substance that is not None
\* and every array
UpdateFromSubstanceData(store, d, arrays) ==
    [i \in 1..Len(store) |->
        [a \in DOMAIN store[i] |->
            IF a \in arrays /\ substance[store[i].substance + 1] # NoneSubstance
            THEN d[store[i].substance + 1][a][RankInSubstance(store, i)]
            ELSE store[i][a]]]

\* the working copies IntrinsicProps._update_intrinsic_props leaves
UpdateIntrinsicData(store, d) ==
    IF NumSubstances = 1 THEN d
    ELSE UpdateCopies(SetSubstanceData(store, d, IntrinsicArrays), 1)

\* the exception IntrinsicProps._update_intrinsic_props ends with
UpdateIntrinsicError(store, d) ==
    IF NumSubstances = 1 THEN UpdateRowsError(store, substance[1])
    ELSE UpdateCopiesError(SetSubstanceData(store, d, IntrinsicArrays), 1)

\* IntrinsicProps._update_intrinsic_props: the store it leaves.  With one
\* substance the loop works on the store itself; with several it works on
\* the copies, which are written back once the loop is through.
UpdateIntrinsicProps(store, d) ==
    IF NumSubstances = 1 THEN UpdateRows(store, substance[1])
    ELSE IF UpdateIntrinsicError(store, d) # "none" THEN store
    ELSE UpdateFromSubstanceData(store, UpdateIntrinsicData(store, d),
                                 IntrinsicArrays)

\* sum(sc['mass'][-new_LEs:])
LastMass(store, n) ==
    RSum([i \in 1..n |-> store[Len(store) - n + i].mass])

\* np.sum(sc['mass'] / np.sum(sc['mass']) * sc[column])
MassWeighted(store, value(_)) ==
    LET total == TotalMass(store)
    IN  RSum([i \in 1..Len(store) |->
                RMul(RDiv(store[i].mass, total), value(store[i]))])

\* the assignments of avg_density, avg_viscosity and floating
Averages(w, store) ==
    LET w1 == SetKey(w, "avg_density",
                     MassWeighted(store, LAMBDA p : R(p.density)))
        w2 == SetKey(w1, "avg_viscosity",
                     MassWeighted(store, LAMBDA p : p.viscosity))
    IN  SetKey(w2, "floating", MassWithStatus(store, in_water))

\* _update_weathering_data with amount_released assigned, not accumulated
UpdateWeatheringData_Assign(w, store, new_LEs) ==
    LET Released(w1) ==
            IF new_LEs > 0
            THEN SetKey(w1, "amount_released", LastMass(store, new_LEs))
            ELSE w1
    IN  Released(Averages(w, store))

\* IntrinsicProps._update_weathering_data
UpdateWeatheringData(w, store, new_LEs) ==
    LET Released(w1, amount_released) ==
            IF new_LEs > 0
            THEN IF "amount_released" \in DOMAIN w1
                 THEN SetKey(w1, "amount_released",
                             RAdd(w1["amount_released"], amount_released))
                 ELSE SetKey(w1, "amount_released", amount_released)
            ELSE w1
    IN  Released(Averages(w, store), LastMass(store, new_LEs))

\* update has returned for these rows
MarkUpdated(store) ==
    [i \in 1..Len(store) |-> [store[i] EXCEPT !.updated = TRUE]]

\* IntrinsicProps.update(num_new_released, sc)
IntrinsicUpdate(num_new_released) ==
    IF Len(le) > 0
    THEN /\ error' = UpdateIntrinsicError(le, data)
         /\ data' = UpdateIntrinsicData(le, data)
         /\ LET Returned(store) ==
                    IF error' = "none" THEN MarkUpdated(store) ELSE store
            IN  le' = Returned(UpdateIntrinsicProps(le, data))
         /\ wd' = IF error' = "none"
                  THEN UpdateWeatheringData(wd, le', num_new_released)
                  ELSE wd
    ELSE /\ error' = "none"
         /\ UNCHANGED <<le, wd, data>>

----------------------------------------------------------------------------
(* Skimmer *)

\* Skimmer._get_mass with units = 'kg'
GetMass(amount) == amount

\* Weatherer._arrays: the arrays every weatherer asks the container for
\* and writes back
WeathererArrays == {"status", "mass_components", "mass"}

\* the arrays Skimmer.prepare_for_model_step asks for
SkimmerMarkArrays == {"status", "mass"}

\* the rows of the arrays of a working copy that holds the mass array
CopyRows(dx, arrays) ==
    [k \in 1..Len(dx["mass"]) |-> [a \in arrays |-> dx[a][k]]]

\* update_from_substancedata(arrays, substance): the rows of substance x
\* take the arrays of its working copy
UpdateFromSubstanceOne(store, d, arrays, x) ==
    [i \in 1..Len(store) |->
        IF store[i].substance = x - 1
        THEN [a \in DOMAIN store[i] |->
                 IF a \in arrays
                 THEN d[x][a][RankInSubstance(store, i)]
                 ELSE store[i][a]]
        ELSE store[i]]

\* the first index at which the cumulative mass exceeds the total
RECURSIVE CumsumIndex_Strict(_, _, _, _)
CumsumIndex_Strict(store, i, acc, total) ==
    IF i > Len(store) THEN Len(store)
    ELSE IF RGt(RAdd(acc, store[i].mass), total) THEN i
         ELSE CumsumIndex_Strict(store, i + 1, RAdd(acc, store[i].mass),
                                 total)

\* number of leading rows Skimmer.prepare_for_model_step marks:
\* np.where(np.cumsum(mass) >= total)[0][0] + 1
RECURSIVE CumsumIndex(_, _, _, _)
CumsumIndex(store, i, acc, total) ==
    IF i > Len(store) THEN Len(store)
    ELSE IF RGe(RAdd(acc, store[i].mass), total) THEN i
         ELSE CumsumIndex(store, i + 1, RAdd(acc, store[i].mass), total)

\* total_mass_removed of Skimmer.prepare_for_model_step
SkimThreshold(s) == RMul(GetMass(R(s.amount)), s.efficiency)

\* the marking branch of Skimmer.prepare_for_model_step
MarkForSkimming(s, store) ==
    LET total_mass_removed == SkimThreshold(s)
        ix == IF RGe(total_mass_removed, TotalMass(store))
              THEN Len(store)
              ELSE CumsumIndex(store, 1, R(0), total_mass_removed)
    IN  [i \in 1..Len(store) |->
            IF i <= ix THEN [store[i] EXCEPT !.status = skim] ELSE store[i]]

\* the window test of the Weatherer base class in place of the Skimmer's
SkimmerIsActive_StartInWindow(s, mt, dt) ==
    s.active_start <= mt /\ s.active_stop > mt

SkimmerIsActive(s, mt, dt) ==
    mt + dt > s.active_start /\ s.active_stop > mt

\* the value Skimmer.prepare_for_model_step leaves in _timestep
SkimmerTimestep(s, mt, dt) ==
    LET t0 == dt
        t1 == IF SkimmerIsActive(s, mt, dt) /\ mt < s.active_start
              THEN dt - (s.active_start - mt) ELSE t0
        t2 == IF SkimmerIsActive(s, mt, dt) /\ s.active_stop < mt + dt
              THEN s.active_stop - mt ELSE t1
    IN  R(t2)

\* the marking branch with several substances: the mark is made on the
\* working copy of the first substance and written back with
\* update_from_substancedata(self._arrays, substance), which ends with a
\* KeyError at the first array the copy does not hold, the arrays before it
\* written
SkimmerMarkCopy ==
    LET WriteBack(d1, missing) ==
            /\ data' = d1
            /\ error' = IF missing = {} THEN "none" ELSE "KeyError"
            /\ \E done \in SUBSET (WeathererArrays \ missing) :
                  /\ missing = {} => done = WeathererArrays
                  /\ le' = UpdateFromSubstanceOne(le, d1, done, 1)
        Mark(d0) ==
            WriteBack([d0 EXCEPT ![1] =
                          PutRows(d0[1],
                                  MarkForSkimming(
                                      sk, CopyRows(d0[1], SkimmerMarkArrays)),
                                  SkimmerMarkArrays)],
                      WeathererArrays \ DOMAIN d0[1])
    IN  Mark(SetSubstanceData(le, data, SkimmerMarkArrays))

\* the marking branch of Skimmer.prepare_for_model_step on the container
SkimmerMark ==
    IF NumSubstances = 1
    THEN /\ le' = MarkForSkimming(sk, le)
         /\ UNCHANGED <<data, error>>
    ELSE SkimmerMarkCopy

\* prepare_for_model_step without the test of the on flag
SkimmerPrepare_IgnoreOn ==
    /\ sk' = [sk EXCEPT
                 !.timestep = SkimmerTimestep(sk, model_time, TimeStep),
                 !.active = SkimmerIsActive(sk, model_time, TimeStep)]
    /\ IF /\ SkimmerIsActive(sk, model_time, TimeStep)
          /\ \A i \in Rows : le[i].status # skim
       THEN SkimmerMark
       ELSE UNCHANGED <<le, data, error>>

\* prepare_for_model_step without the else branch that clears _active
SkimmerPrepare_KeepActive ==
    IF ~sk.on
    THEN /\ sk' = [sk EXCEPT !.active = FALSE]
         /\ UNCHANGED <<le, data, error>>
    ELSE /\ sk' = [sk EXCEPT
                     !.timestep = SkimmerTimestep(sk, model_time, TimeStep),
                     !.active = (sk.active \/
                                 SkimmerIsActive(sk, model_time, TimeStep))]
         /\ IF /\ SkimmerIsActive(sk, model_time, TimeStep)
               /\ \A i \in Rows : le[i].status # skim
            THEN SkimmerMark
            ELSE UNCHANGED <<le, data, error>>

\* prepare_for_model_step without the test for particles already marked
SkimmerPrepare_MarkAgain ==
    IF ~sk.on
    THEN /\ sk' = [sk EXCEPT !.active = FALSE]
         /\ UNCHANGED <<le, data, error>>
    ELSE /\ sk' = [sk EXCEPT
                     !.timestep = SkimmerTimestep(sk, model_time, TimeStep),
                     !.active = SkimmerIsActive(sk, model_time, TimeStep)]
         /\ IF SkimmerIsActive(sk, model_time, TimeStep)
            THEN SkimmerMark
            ELSE UNCHANGED <<le, data, error>>

\* Skimmer.prepare_for_model_step; logged records the logger.error call
\* made when the marking branch finds more than one substance
SkimmerPrepare ==
    IF ~sk.on
    THEN /\ sk' = [sk EXCEPT !.active = FALSE]
         /\ UNCHANGED <<le, data, error>>
    ELSE /\ sk' = [sk EXCEPT
                     !.timestep = SkimmerTimestep(sk, model_time, TimeStep),
                     !.active = SkimmerIsActive(sk, model_time, TimeStep),
                     !.logged = (sk.logged \/
                                 (/\ SkimmerIsActive(sk, model_time, TimeStep)
                                  /\ \A i \in Rows : le[i].status # skim
                                  /\ NumSubstances > 1))]
         /\ IF /\ SkimmerIsActive(sk, model_time, TimeStep)
               /\ \A i \in Rows : le[i].status # skim
            THEN SkimmerMark
            ELSE UNCHANGED <<le, data, error>>

\* Skimmer._mass_to_remove(substance) * efficiency
SkimmerRmMass(s) == RMul(GetMass(RMul(s.rate, s.timestep)), s.efficiency)

\* the body of the loop of Skimmer.weather_elements
SkimParticles(s, store) ==
    LET rm_mass_frac == RDiv(SkimmerRmMass(s), MassWithStatus(store, skim))
        remain == RSub(R(1), rm_mass_frac)
    IN  [i \in 1..Len(store) |->
            IF store[i].status = skim
            THEN LET mc == [k \in 1..NumComp |->
                               RMul(remain, store[i].mass_components[k])]
                 IN  [store[i] EXCEPT !.mass_components = mc,
                                      !.mass = RSum(mc)]
            ELSE store[i]]

\* the loop of Skimmer.weather_elements over the working copies
SkimCopies(s, d) ==
    [x \in 1..NumSubstances |->
        PutRows(d[x], SkimParticles(s, CopyRows(d[x], WeathererArrays)),
                WeathererArrays)]

\* Skimmer.weather_elements: with one substance the loop works on the store
\* itself; with several it works on the copies, adds rm_mass to skimmed
\* once per substance, and the copies are written back after the loop
SkimmerWeather ==
    IF ~sk.active \/ Len(le) = 0
    THEN UNCHANGED <<le, wd, skim_taken, data>>
    ELSE /\ IF NumSubstances = 1
            THEN /\ le' = SkimParticles(sk, le)
                 /\ UNCHANGED data
            ELSE /\ data' = SkimCopies(sk, SetSubstanceData(
                                               le, data, WeathererArrays))
                 /\ le' = UpdateFromSubstanceData(le, data',
                                                  WeathererArrays)
         /\ wd' = [wd EXCEPT !["skimmed"] =
                       RAdd(@, RMul(R(NumSubstances), SkimmerRmMass(sk)))]
         /\ skim_taken' = RAdd(skim_taken,
                               RSub(TotalMass(le), TotalMass(le')))

----------------------------------------------------------------------------
(* Burn and Dispersion *)

\* Weatherer.prepare_for_model_step of the base class
WeathererIsActive(w, mt) ==
    w.on /\ w.active_start <= mt /\ w.active_stop > mt

\* fraction of each component that stays: 1 - 0.25 / shape[1]
BurnRemain == RSub(R(1), RDiv(Norm(25, 100), R(NumComp)))

\* the fraction not divided by the number of components
DispersionRemain_NotPerComponent == RSub(R(1), Norm(15, 1000))

\* fraction of each component that stays: 1 - 0.015 / shape[1]
DispersionRemain == RSub(R(1), RDiv(Norm(15, 1000), R(NumComp)))

\* the loop body shared by Burn.weather_elements and
\* Dispersion.weather_elements: rows with status in_water keep pct_per_le of
\* every component, mass becomes the component sum
RemoveFraction(store, pct_per_le, isburn) ==
    [i \in 1..Len(store) |->
        IF store[i].status = in_water
        THEN LET mc == [k \in 1..NumComp |->
                           RMul(pct_per_le, store[i].mass_components[k])]
                 Count(p) ==
                     IF isburn /\ "burns" \in DOMAIN p
                     THEN [p EXCEPT !.burns = @ + 1] ELSE p
             IN  Count([store[i] EXCEPT !.mass_components = mc,
                                        !.mass = RSum(mc)])
        ELSE store[i]]

\* np.sum(mass_components[mask, :] - mass_remain)
RemovedByFraction(store, pct_per_le) ==
    RSum([i \in 1..Len(store) |->
            IF store[i].status = in_water
            THEN RSum([k \in 1..NumComp |->
                         RSub(store[i].mass_components[k],
                              RMul(pct_per_le, store[i].mass_components[k]))])
            ELSE R(0)])

\* the loop of Burn.weather_elements and Dispersion.weather_elements over
\* the working copies
FractionCopies(d, pct_per_le) ==
    [x \in 1..NumSubstances |->
        PutRows(d[x],
                RemoveFraction(CopyRows(d[x], WeathererArrays), pct_per_le,
                               FALSE),
                WeathererArrays)]

\* what that loop adds to the total
RemovedFromCopies(d, pct_per_le) ==
    RSum([x \in 1..NumSubstances |->
            RemovedByFraction(CopyRows(d[x], WeathererArrays), pct_per_le)])

\* weather_elements without the write-back of the copies
FractionWeather_NoWriteBack(key, pct_per_le, isburn) ==
    IF NumSubstances = 1
    THEN /\ le' = RemoveFraction(le, pct_per_le, isburn)
         /\ wd' = [wd EXCEPT ![key] =
                       RAdd(@, RemovedByFraction(le, pct_per_le))]
         /\ UNCHANGED data
    ELSE /\ data' = FractionCopies(
                        SetSubstanceData(le, data, WeathererArrays),
                        pct_per_le)
         /\ UNCHANGED le
         /\ wd' = [wd EXCEPT ![key] =
                       RAdd(@, RemovedFromCopies(
                                   SetSubstanceData(le, data,
                                                    WeathererArrays),
                                   pct_per_le))]

\* the body of Burn.weather_elements and Dispersion.weather_elements: with
\* one substance the loop works on the store itself; with several it works
\* on the copies, which are written back after the loop
FractionWeather(key, pct_per_le, isburn) ==
    IF NumSubstances = 1
    THEN /\ le' = RemoveFraction(le, pct_per_le, isburn)
         /\ wd' = [wd EXCEPT ![key] =
                       RAdd(@, RemovedByFraction(le, pct_per_le))]
         /\ UNCHANGED data
    ELSE /\ data' = FractionCopies(
                        SetSubstanceData(le, data, WeathererArrays),
                        pct_per_le)
         /\ le' = UpdateFromSubstanceData(le, data', WeathererArrays)
         /\ wd' = [wd EXCEPT ![key] =
                       RAdd(@, RemovedFromCopies(
                                   SetSubstanceData(le, data,
                                                    WeathererArrays),
                                   pct_per_le))]

\* Burn.weather_elements
BurnWeather ==
    IF burn.active /\ Len(le) > 0
    THEN FractionWeather("burned", BurnRemain, TRUE)
    ELSE UNCHANGED <<le, wd, data>>

\* Dispersion.weather_elements
DispersionWeather ==
    IF disp.active /\ Len(le) > 0
    THEN FractionWeather("dispersed", DispersionRemain, FALSE)
    ELSE UNCHANGED <<le, wd, data>>

----------------------------------------------------------------------------
(* the step driver: prepare_for_model_run; then release_elements and        *)
(* IntrinsicProps.update, the output of the step, and for the next step     *)
(* prepare_for_model_step of every weatherer, the movers, weather_elements  *)
(* of every weatherer and model_step_is_done                                *)

PrepareForModelRun ==
    /\ pc = "run"
    /\ wd' = PrepareWeatheringData
    /\ pc' = "release"
    /\ op' = "prepare_for_model_run"
    /\ UNCHANGED <<todo, model_time, horizon, substance, sc, data, error, last_id,
                   le, num_new, released, sk, burn, disp, removed, skim_taken,
                   skim_short>>

ReleaseElements ==
    /\ pc = "release"
    /\ \E nrel \in [1..NumSpills -> 0..MaxRelease] :
          /\ released + SumTo(nrel, NumSpills) <= MaxLE
          /\ release_elements(nrel)
    /\ pc' = "update"
    /\ op' = "release_elements"
    /\ UNCHANGED <<todo, model_time, horizon, substance, sc, error, wd, sk, burn,
                   disp, removed, skim_taken, skim_short>>

\* an exception ends the step: the driver stops
Raised == "raised"

Update ==
    /\ pc = "update"
    /\ IntrinsicUpdate(num_new)
    /\ pc' = IF error' = "none" THEN "report" ELSE Raised
    /\ op' = "update"
    /\ UNCHANGED <<todo, model_time, horizon, substance, sc, last_id, num_new,
                   released, sk, burn, disp, removed, skim_taken, skim_short>>

SetupTimeStep ==
    /\ pc = "report"
    /\ model_time < horizon * TimeStep
    /\ pc' = "prepare"
    /\ todo' = Weatherers
    /\ op' = "setup_time_step"
    /\ UNCHANGED <<model_time, horizon, substance, sc, data, error, last_id, le,
                   num_new, released, wd, sk, burn, disp, removed, skim_taken,
                   skim_short>>

PrepareSkimmer ==
    /\ pc = "prepare"
    /\ "skimmer" \in todo
    /\ SkimmerPrepare
    /\ skim_short' = (skim_short \/
                         (sk'.active /\ RLt(TotalMass(le), SkimThreshold(sk))))
    /\ todo' = todo \ {"skimmer"}
    /\ pc' = IF error' = "none" THEN pc ELSE Raised
    /\ op' = "skimmer_prepare"
    /\ UNCHANGED <<model_time, horizon, substance, sc, last_id, num_new, released,
                   wd, burn, disp, removed, skim_taken>>

PrepareBurn ==
    /\ pc = "prepare"
    /\ "burn" \in todo
    /\ burn' = [burn EXCEPT !.active = WeathererIsActive(burn, model_time)]
    /\ todo' = todo \ {"burn"}
    /\ op' = "burn_prepare"
    /\ UNCHANGED <<pc, model_time, horizon, substance, sc, data, error, last_id,
                   le, num_new, released, wd, sk, disp, removed, skim_taken,
                   skim_short>>

PrepareDispersion ==
    /\ pc = "prepare"
    /\ "dispersion" \in todo
    /\ disp' = [disp EXCEPT !.active = WeathererIsActive(disp, model_time)]
    /\ todo' = todo \ {"dispersion"}
    /\ op' = "dispersion_prepare"
    /\ UNCHANGED <<pc, model_time, horizon, substance, sc, data, error, last_id,
                   le, num_new, released, wd, sk, burn, removed, skim_taken,
                   skim_short>>

\* the movers may take particles out of the water: at most one row per step
\* goes from in_water to to_be_removed
MoveElements ==
    /\ pc = "prepare"
    /\ todo = {}
    /\ \/ UNCHANGED le
       \/ \E i \in Rows :
             /\ le[i].status = in_water
             /\ le' = [le EXCEPT ![i].status = to_be_removed]
    /\ pc' = "weather"
    /\ todo' = Weatherers
    /\ op' = "move_elements"
    /\ UNCHANGED <<model_time, horizon, substance, sc, data, error, last_id,
                   num_new, released, wd, sk, burn, disp, removed, skim_taken,
                   skim_short>>

WeatherSkimmer ==
    /\ pc = "weather"
    /\ "skimmer" \in todo
    /\ SkimmerWeather
    /\ todo' = todo \ {"skimmer"}
    /\ op' = "skimmer_weather"
    /\ UNCHANGED <<pc, model_time, horizon, substance, sc, error, last_id,
                   num_new, released, sk, burn, disp, removed, skim_short>>

WeatherBurn ==
    /\ pc = "weather"
    /\ "burn" \in todo
    /\ BurnWeather
    /\ todo' = todo \ {"burn"}
    /\ op' = "burn_weather"
    /\ UNCHANGED <<pc, model_time, horizon, substance, sc, error, last_id,
                   num_new, released, sk, burn, disp, removed, skim_taken,
                   skim_short>>

WeatherDispersion ==
    /\ pc = "weather"
    /\ "dispersion" \in todo
    /\ DispersionWeather
    /\ todo' = todo \ {"dispersion"}
    /\ op' = "dispersion_weather"
    /\ UNCHANGED <<pc, model_time, horizon, substance, sc, error, last_id,
                   num_new, released, sk, burn, disp, removed, skim_taken,
                   skim_short>>

\* the particles that stay grow older by the time step
AgeElements(store) ==
    [i \in 1..Len(store) |->
        [store[i] EXCEPT !.age = @ + TimeStep * SecondsPerUnit]]

StepIsDone ==
    /\ pc = "weather"
    /\ todo = {}
    /\ error' = model_step_is_done_error(le)
    /\ IF error' = "none"
       THEN /\ le' = AgeElements(model_step_is_done(le))
            /\ removed' = RAdd(removed, MassWithStatus(le, to_be_removed))
            /\ model_time' = model_time + TimeStep
            /\ pc' = "release"
       ELSE /\ le' = model_step_is_done(le)
            /\ pc' = Raised
            /\ UNCHANGED <<removed, model_time>>
    /\ op' = "model_step_is_done"
    /\ UNCHANGED <<todo, horizon, substance, sc, data, last_id, num_new, released,
                   wd, sk, burn, disp, skim_taken, skim_short>>

Next ==
    \/ PrepareForModelRun
    \/ ReleaseElements
    \/ Update
    \/ SetupTimeStep
    \/ PrepareSkimmer
    \/ PrepareBurn
    \/ PrepareDispersion
    \/ MoveElements
    \/ WeatherSkimmer
    \/ WeatherBurn
    \/ WeatherDispersion
    \/ StepIsDone

Spec == Init /\ [][Next]_vars

----------------------------------------------------------------------------
(* properties *)

\* the output of a step is written right after IntrinsicProps.update
Reported == pc = "report"

Accounted ==
    RAdd(wd["floating"],
         RAdd(wd["skimmed"],
              RAdd(wd["burned"], RAdd(wd["dispersed"], removed))))

\* C1: mass conservation -- at every reported step, amount_released equals
\* floating + skimmed + burned + dispersed + the mass of the rows deleted as
\* to_be_removed.
C1_MassConservation ==
    Reported => REq(wd["amount_released"], Accounted)

\* sum(mass_components) of row i
ComponentSum(i) == RSum(le[i].mass_components)

\* IntrinsicProps.update has initialized row i
Initialized(i) == le[i].density # 0

WindowPassed == model_time >= sk.active_stop

\* C3: when the steps cover the Skimmer's whole window and the population
\* held at least amount x efficiency, the mass taken from the particles over
\* the window and the final skimmed total both equal amount x efficiency.
C3_SkimmedEqualsAmountTimesEfficiency ==
    (sk.on /\ WindowPassed /\ ~skim_short)
        => /\ REq(skim_taken, SkimThreshold(sk))
           /\ REq(wd["skimmed"], SkimThreshold(sk))

\* C4: the reported floating mass never exceeds the reported
\* amount_released.
C4_FloatingAtMostReleased ==
    ("floating" \in DOMAIN wd /\ "amount_released" \in DOMAIN wd)
        => RLe(wd["floating"], wd["amount_released"])

\* a report after burning, skimming and a deletion, with oil still floating
C4_Witness ==
    /\ Reported
    /\ RLt(R(0), wd["floating"])
    /\ RLt(wd["floating"], wd["amount_released"])
    /\ RLt(R(0), wd["burned"])
    /\ RLt(R(0), wd["skimmed"])
    /\ RLt(R(0), removed)

\* C5: every particle's mass and every entry of its mass_components is >= 0
\* in every reachable state.
C5_MassNonNegative ==
    \A i \in Rows :
        /\ RGe(le[i].mass, R(0))
        /\ \A k \in 1..NumComp : RGe(le[i].mass_components[k], R(0))

\* Skimmer.prepare_for_model_step has run for the current step
SkimmerPrepared ==
    \/ pc = "prepare" /\ "skimmer" \notin todo
    \/ pc = "weather"

\* C6 as stated: with on = true the Skimmer is active for the step starting
\* at model_time exactly when active_start <= model_time < active_stop.
C6_ActiveIffStartInWindow ==
    (SkimmerPrepared /\ sk.on)
        => (sk.active <=>
              (sk.active_start <= model_time /\ model_time < sk.active_stop))

\* C6 amended: with on = true the Skimmer is active for the step
\* [model_time, model_time + time_step] exactly when the step overlaps the
\* window: model_time + time_step > active_start and model_time < active_stop.
C6_ActiveIffStepOverlapsWindow ==
    (SkimmerPrepared /\ sk.on)
        => (sk.active <=>
              (model_time + TimeStep > sk.active_start
                 /\ model_time < sk.active_stop))

\* the Skimmer is active in a step that starts before active_start
C6_Witness ==
    /\ SkimmerPrepared
    /\ sk.on
    /\ sk.active
    /\ model_time < sk.active_start

\* C7: in a step that starts at model_time >= active_stop, and in every
\* later step, Skimmer.weather_elements changes no particle and adds nothing
\* to skimmed.
C7_InactiveAfterStop ==
    [][(WindowPassed /\ op' = "skimmer_weather")
          => (~sk.active /\ le' = le /\ wd' = wd)]_vars

\* weather_elements of a Skimmer that skimmed earlier, called after its stop
C7_Witness ==
    /\ op = "skimmer_weather"
    /\ sk.on
    /\ WindowPassed
    /\ RLt(R(0), wd["skimmed"])
    /\ \E i \in Rows : le[i].status = skim

Min(a, b) == IF a < b THEN a ELSE b

Max(a, b) == IF a > b THEN a ELSE b

\* length of the overlap of [mt, mt + dt] with [active_start, active_stop]
Overlap(s, mt, dt) ==
    Min(mt + dt, s.active_stop) - Max(mt, s.active_start)

\* C8: for every step that overlaps the active window, the duration used for
\* the step's removal is the length of the overlap of the step with the
\* window.
C8_TimestepIsOverlap ==
    (SkimmerPrepared /\ sk.on /\ sk.active)
        => sk.timestep = R(Overlap(sk, model_time, TimeStep))

\* C9: each active Burn step leaves 1 - 0.0025 / n of every component of
\* every in_water particle and sets mass to the new component sum.
C9_BurnRemovesQuarterPercent ==
    [][(op' = "burn_weather" /\ burn.active)
         => \A i \in Rows :
              le[i].status = in_water
                => /\ \A k \in 1..NumComp :
                        REq(le'[i].mass_components[k],
                            RMul(RSub(R(1), RDiv(Norm(25, 10000), R(NumComp))),
                                 le[i].mass_components[k]))
                   /\ REq(le'[i].mass, RSum(le'[i].mass_components))]_vars

----------------------------------------------------------------------------
(* Burn alone on a substance of 5 equal components *)

InitBurn ==
    /\ InitStore
    /\ horizon = BurnSteps
    /\ substance = <<OilEq5>>
    /\ data = InitData(substance)
    /\ sk = InitSkimmer(FALSE, 4, <<0, 3 * TimeStep>>)
    /\ burn = InitWeatherer(TRUE, <<0, BurnSteps * TimeStep>>)
    /\ disp = InitWeatherer(FALSE, DispersionWindow)

SpecBurn == InitBurn /\ [][Next]_vars

\* 1 - 0.0025
QuarterPercentRemain == RSub(R(1), Norm(25, 10000))

\* m / (1 - 0.0025)^4, divided step by step to stay within machine integers
BeforeFourSteps(m) ==
    RDiv(RDiv(RDiv(RDiv(m, QuarterPercentRemain), QuarterPercentRemain),
              QuarterPercentRemain), QuarterPercentRemain)

\* C10: after 4 consecutive Burn steps on an in_water particle of 5 equal
\* components, mass = initial mass x (1 - 0.0025)^4.
C10_BurnFourSteps ==
    \A i \in Rows :
        (le[i].burns = 4 /\ le[i].status = in_water)
            => REq(BeforeFourSteps(le[i].mass), le[i].init_mass)

----------------------------------------------------------------------------
(* Dispersion *)

\* sum over the in_water rows of sum(mass_components)
InWaterComponentMass(store) ==
    RSum([i \in 1..Len(store) |->
            IF store[i].status = in_water
            THEN RSum(store[i].mass_components) ELSE R(0)])

----------------------------------------------------------------------------
(* runs that exercise IntrinsicProps: oils lighter than, as dense as and    *)
(* denser than the water, two substances, a caller that calls update again, *)
(* writes the frac_coverage column, or goes on after an exception           *)

SubstanceLists == {<<OilA>>, <<OilNeutral>>, <<OilHeavy>>, <<OilA, OilB>>}

InitIntrinsic ==
    /\ InitStore
    /\ horizon = SpreadSteps
    /\ substance \in SubstanceLists
    /\ data = InitData(substance)
    /\ sk = InitSkimmer(FALSE, 4, <<0, 3 * TimeStep>>)
    /\ burn = InitWeatherer(NumSubstances = 1, BurnWindow)
    /\ disp = InitWeatherer(FALSE, DispersionWindow)

UpdateOps == {"update", "update0_first", "update0_second"}

\* IntrinsicProps.update(0, sc) called again, at most twice in succession
UpdateAgain ==
    /\ pc \in {"report", Raised}
    /\ op \in {"update", "update0_first"}
    /\ IntrinsicUpdate(0)
    /\ pc' = IF error' = "none" THEN "report" ELSE Raised
    /\ op' = IF op = "update" THEN "update0_first" ELSE "update0_second"
    /\ UNCHANGED <<todo, model_time, horizon, substance, sc, last_id, num_new,
                   released, sk, burn, disp, removed, skim_taken, skim_short>>

\* sc['frac_coverage'] = array of one value, written once between two steps
SetFracCoverage ==
    /\ pc = "report"
    /\ Len(le) > 0
    /\ \A i \in Rows : le[i].frac_coverage = R(1)
    /\ \E v \in FracCoverages :
          le' = [i \in Rows |-> [le[i] EXCEPT !.frac_coverage = v]]
    /\ op' = "set_frac_coverage"
    /\ UNCHANGED <<pc, todo, model_time, horizon, substance, sc, data, error,
                   last_id, num_new, released, wd, sk, burn, disp, removed,
                   skim_taken, skim_short>>

\* the caller catches the exception of update and goes on with the run
Continue ==
    /\ pc = Raised
    /\ op \in UpdateOps
    /\ pc' = "report"
    /\ error' = "none"
    /\ op' = "continue"
    /\ UNCHANGED <<todo, model_time, horizon, substance, sc, data, last_id, le,
                   num_new, released, wd, sk, burn, disp, removed,
                   skim_taken, skim_short>>

NextIntrinsic ==
    \/ Next
    \/ UpdateAgain
    \/ SetFracCoverage
    \/ Continue

SpecIntrinsic == InitIntrinsic /\ [][NextIntrinsic]_vars

----------------------------------------------------------------------------
(* properties of IntrinsicProps.update *)

\* C12: for every particle (all substances have a non-zero density),
\* density = 0 exactly when IntrinsicProps.update has never returned for the
\* particle.
C12_DensityZeroIffNotInitialized ==
    \A i \in Rows : (le[i].density = 0) <=> ~le[i].updated

\* C13: once IntrinsicProps.update has returned for a particle, area > 0 and
\* thickness = init_volume / area, whatever the accepted relative buoyancy
\* (zero included) and the frac_coverage.
C13_AreaPositive ==
    \A i \in Rows :
        le[i].updated
            => /\ RGt(le[i].area, R(0))
               /\ REq(le[i].thickness, RDiv(le[i].init_volume, le[i].area))

\* row i is an initialized particle with age > 0
Aged(i) == le[i].density # 0 /\ le[i].age > 0

\* C14: an update leaves the area of every aged particle whose thickness is
\* at most 1e-4 m as it was; the frac_coverage factor is not applied.
C14_ThinSlickKeepsArea ==
    [][op' \in UpdateOps
         => \A i \in Rows :
              (Aged(i) /\ RLe(le[i].thickness, thickness_limit))
                  => le'[i].area = le[i].area]_vars

\* an update has left a thin particle of frac_coverage 1/2 with the area it
\* had one step earlier
C14_Witness ==
    /\ op = "update"
    /\ error = "none"
    /\ \E i \in Rows :
          /\ le[i].age = 2 * TimeStep * SecondsPerUnit
          /\ le[i].frac_coverage = Norm(1, 2)
          /\ RLe(le[i].thickness, thickness_limit)
          /\ le[i].area = SpreadArea(WaterViscosity, le[i],
                                     TimeStep * SecondsPerUnit)

\* C15: the second of two successive update(0, sc) calls leaves every column
\* of the store and every entry of weathering_data as the first call left
\* them.
C15_UpdateIdempotent ==
    [][op' = "update0_second" => (le' = le /\ wd' = wd)]_vars

\* update(0, sc) has been called twice on a store with a spreading particle
C15_Witness ==
    /\ op = "update0_second"
    /\ error = "none"
    /\ \E i \in Rows :
          /\ le[i].age > 0
          /\ RGt(le[i].thickness, thickness_limit)
          /\ RGt(le[i].area, le[i].init_area)
          /\ le[i].frac_coverage # R(1)

\* C16: IntrinsicProps.update leaves the mass of every particle as it was,
\* with one substance and with several.
C16_UpdateKeepsMass ==
    [][op' \in UpdateOps
         => /\ Len(le') = Len(le)
            /\ \A i \in Rows : le'[i].mass = le[i].mass]_vars

\* with two substances, an update has initialized a new particle of one
\* substance and spread an aged one of the other through the working copies
C16_Witness ==
    /\ op = "update"
    /\ error = "none"
    /\ NumSubstances > 1
    /\ \E i, j \in Rows :
          /\ le[i].substance # le[j].substance
          /\ le[i].age > 0
          /\ le[j].age = 0
          /\ le[j].area = le[j].init_area
          /\ RGt(le[i].area, le[i].init_area)
    /\ \A i \in Rows : le[i].updated

\* the substance of row i
SubstanceOf(i) ==
    substance[IF NumSubstances = 1 THEN 1 ELSE le[i].substance + 1]

\* row i is new and its oil is denser than the water, or it is initialized
\* with a negative relative buoyancy
Sinks(i) ==
    \/ le[i].density = 0 /\ SubstanceOf(i).density > WaterDensity
    \/ le[i].density # 0 /\ RLt(le[i].relative_bouyancy, R(0))

\* C17: an update of a store that holds a new particle of an oil denser than
\* the water, or an initialized particle of negative relative buoyancy, ends
\* with a ValueError that reaches the caller; no buoyancy is raised to 0 and
\* weathering_data is not refreshed.
C17_NegativeBuoyancyRaises ==
    [][(op' \in UpdateOps /\ \E i \in Rows : Sinks(i))
         => /\ error' = "ValueError"
            /\ pc' = Raised
            /\ wd' = wd
            /\ \A i \in Rows :
                  RLt(le[i].relative_bouyancy, R(0))
                      => le'[i].relative_bouyancy = le[i].relative_bouyancy
      ]_vars

\* update_area has raised for aged particles whose initialization had
\* raised one step earlier
C17_Witness ==
    /\ op = "update"
    /\ error = "ValueError"
    /\ pc = Raised
    /\ Len(le) > 0
    /\ \A i \in Rows :
          /\ le[i].age > 0
          /\ RLt(le[i].relative_bouyancy, R(0))
          /\ ~le[i].updated

----------------------------------------------------------------------------
(* properties of the SpillContainer *)

\* C18: every particle release_elements adds gets an id larger than every id
\* given earlier in the run, the ids of deleted particles included; so no id
\* is given twice.
C18_IdsIncrease ==
    [][op' = "release_elements"
         => \A j \in (Len(le) + 1)..Len(le') :
              /\ le'[j].id > last_id
              /\ \A i \in (Len(le) + 1)..(j - 1) : le'[i].id < le'[j].id
      ]_vars

\* the rows with the age column blanked
IgnoreAge(store) == [i \in 1..Len(store) |-> [store[i] EXCEPT !.age = 0]]

\* C19: model_step_is_done removes exactly the rows whose status is
\* to_be_removed, from every column, and keeps the other rows in their
\* order; no other operation of a run lowers the particle count.
C19_StepDoneDeletesMarkedRows ==
    [][/\ op' = "model_step_is_done"
            => IgnoreAge(le') = IgnoreAge(DeleteRemoved(le))
       /\ op' # "model_step_is_done" => Len(le') >= Len(le)]_vars

\* the arrays itersubstancedata hands out for substance x, and the rows of
\* the store they should show
HandedOut(store, d, x) == SetSubstanceData(store, d, IntrinsicArrays)[x]

StoreColumns(store, x) ==
    [a \in IntrinsicArrays |-> Column(SubstanceRows(store, x - 1), a)]

\* C20: with more than one substance, a model_step_is_done that has a row to
\* delete completes, and the next itersubstancedata hands out, for every
\* substance, the rows the store now holds for it.
C20_StepDoneResetsCopies ==
    [][(/\ op' = "model_step_is_done"
        /\ NumSubstances > 1
        /\ \E i \in Rows : le[i].status = to_be_removed)
         => /\ error' = "none"
            /\ \A i \in 1..Len(le') : le'[i].status # to_be_removed
            /\ \A x \in 1..NumSubstances :
                  HandedOut(le', data', x) = StoreColumns(le', x)]_vars

----------------------------------------------------------------------------
(* SpillContainer: the spills, the substance partition, the array types and *)
(* the columns.  A column is a dtype and the cells of its rows; the cells   *)
(* of id, spill_num, status_codes and substance hold what the container     *)
(* writes there, the cells of the other columns hold 0 until a caller       *)
(* writes 1.  The spills of these runs are all on.                          *)

\* rows the columns get, and the largest id a particle gets
MaxRows == 2

\* the substance objects the spills may carry: the first two are distinct
\* objects with equal contents
SubstanceObjects == <<OilA, OilA, OilB>>

\* the spills a container gets, in the order they are added, each named by
\* the substance object it carries: two spills with one object, with two
\* equal objects, with two different objects and then a third spill
SpillLists == {<<1, 1>>, <<1, 2>>, <<1, 3, 1>>}

\* array types the weatherers hand to prepare_for_model_run
GivenArrayTypes == {{}, {"density"}}

\* __eq__ of object: two substances are equal only when they are one object
OilPropsEq_Default(a, b) == FALSE

\* OilProps.__eq__ on two objects of type OilProps: their __dict__ or their
\* tojson() compare equal
OilPropsEq(a, b) == a = b

\* subs.index(o) of a list of substance objects, 0 when o is not in subs:
\* the first element that is o or equals o
SubsIndex(subs, o) ==
    LET found == {ix \in 1..Len(subs) :
                     \/ subs[ix] = o
                     \/ OilPropsEq(SubstanceObjects[subs[ix]],
                                   SubstanceObjects[o])}
    IN  IF found = {} THEN 0
        ELSE CHOOSE ix \in found : \A jx \in found : ix <= jx

\* the loop of _set_substancespills over the spills from spill k on
RECURSIVE GroupSpills(_, _, _, _)
GroupSpills(spills, k, subs, groups) ==
    IF k > Len(spills) THEN [substances |-> subs, spills |-> groups]
    ELSE IF SubsIndex(subs, spills[k]) > 0
         THEN GroupSpills(spills, k + 1, subs,
                          [ix \in 1..Len(groups) |->
                              IF ix = SubsIndex(subs, spills[k])
                              THEN Append(groups[ix], k) ELSE groups[ix]])
         ELSE GroupSpills(spills, k + 1, Append(subs, spills[k]),
                          Append(groups, <<k>>))

\* the largest num_components of the substances, at least 1
CompLen(c, subs) ==
    LET lens == {Len(SubstanceObjects[subs[ix]].mass_fraction) :
                    ix \in 1..Len(subs)}
                \cup {IF c.comp_len = 0 THEN 1 ELSE c.comp_len}
    IN  CHOOSE n \in lens : \A m \in lens : m <= n

\* SpillContainer._set_substancespills: data is [{}] * len(subs), one dict
\* shared by the entries; with more than one substance the array type
\* substance is declared; with exactly one, data[0] is the dict now bound
\* to _data_arrays
set_substancespills(c) ==
    LET Built(g) ==
            [c EXCEPT
                !.part = [valid |-> TRUE,
                          substances |-> g.substances,
                          spills |-> g.spills,
                          data |-> [x \in 1..Len(g.substances) |->
                                       IF Len(g.substances) = 1
                                       THEN [dict |-> c.gen, cache |-> <<>>]
                                       ELSE [dict |-> "shared",
                                             cache |-> <<>>]]],
                !.comp_len = CompLen(c, g.substances),
                !.types = IF Len(g.substances) > 1
                          THEN [n \in DOMAIN c.types \cup {"substance"} |->
                                   IF n \in DOMAIN c.types THEN c.types[n]
                                   ELSE DType(n)]
                          ELSE c.types]
    IN  Built(GroupSpills(c.spills, 1, <<>>, <<>>))

\* what get_substances, iterspillsbysubstance, substancedata and
\* itersubstancedata start with
WithPartition(c) == IF c.part.valid THEN c ELSE set_substancespills(c)

\* _reset_arrays that leaves the partition as it is
reset_arrays_KeepPartition(c) ==
    [c EXCEPT !.types = [n \in DefaultArrayTypes |-> DType(n)],
              !.cols = [n \in {} |-> <<>>],
              !.gen = 1 - c.gen,
              !.comp_len = 0]

\* _reset_arrays that keeps the array types declared so far
reset_arrays_KeepTypes(c) ==
    [c EXCEPT !.cols = [n \in {} |-> <<>>],
              !.gen = 1 - c.gen,
              !.part = NoPartition,
              !.comp_len = 0]

\* SpillContainer._reset_arrays: the default array types, a new empty dict
\* for _data_arrays, no partition
reset_arrays(c) ==
    [c EXCEPT !.types = [n \in DefaultArrayTypes |-> DType(n)],
              !.cols = [n \in {} |-> <<>>],
              !.gen = 1 - c.gen,
              !.part = NoPartition,
              !.comp_len = 0]

\* SpillContainer.initialize_data_arrays: every declared array type gets a
\* column of no rows
initialize_data_arrays(c) ==
    [c EXCEPT !.cols = [n \in DOMAIN c.cols \cup DOMAIN c.types |->
                           IF n \in DOMAIN c.types
                           THEN [dtype |-> c.types[n], cells |-> <<>>]
                           ELSE c.cols[n]]]

\* SpillContainer.rewind
rewind(c) ==
    [initialize_data_arrays(reset_arrays(c)) EXCEPT !.wd = {},
                                                    !.setup = TRUE]

\* SpillContainer.prepare_for_model_run(array_types)
prepare_for_model_run(c, array_types) ==
    LET Declared(c1) ==
            [initialize_data_arrays(WithPartition(c1)) EXCEPT
                !.setup = TRUE]
    IN  Declared([c EXCEPT !.types =
                     [n \in DOMAIN c.types \cup array_types |->
                         IF n \in array_types THEN DType(n)
                         ELSE c.types[n]]])

\* len(self): the length of an arbitrary column, 0 without columns
ContainerLen(c) ==
    IF DOMAIN c.cols = {} THEN {0}
    ELSE {Len(c.cols[n].cells) : n \in DOMAIN c.cols}

\* the cells _append_data_arrays and set_newparticle_values give the rows
\* of one spill in the column name: ids count on from first
NewCells(name, spill_ix, first, n) ==
    [i \in 1..n |->
        IF name = "id" THEN first + i - 1
        ELSE IF name = "spill_num" THEN spill_ix - 1
        ELSE IF name = "status_codes" THEN in_water
        ELSE 0]

\* _append_data_arrays for one spill on the columns of the set done
AppendCells(c, spill_ix, n, done) ==
    LET first == IF Len(c.cols["spill_num"].cells) > 0
                 THEN c.cols["id"].cells[Len(c.cols["id"].cells)] + 1
                 ELSE 0
    IN  [c EXCEPT !.cols =
            [name \in DOMAIN c.cols |->
                IF name \in done
                THEN [c.cols[name] EXCEPT
                         !.cells = @ \o NewCells(name, spill_ix, first, n)]
                ELSE c.cols[name]]]

\* the spills of the partition in the order release_elements visits them,
\* each with the index of its substance
RECURSIVE SpillOrder(_, _)
SpillOrder(part, x) ==
    IF x > Len(part.spills) THEN <<>>
    ELSE [k \in 1..Len(part.spills[x]) |->
             [spill |-> part.spills[x][k], subs_idx |-> x - 1]]
         \o SpillOrder(part, x + 1)

\* the exception release_elements ends with: self['spill_num'] or, in
\* _append_data_arrays, the column of a declared array type is missing
release_error(c, nrel) ==
    IF \A sp \in 1..Len(c.spills) : nrel[sp] = 0 THEN "none"
    ELSE IF DOMAIN WithPartition(c).types \subseteq DOMAIN c.cols
         THEN "none" ELSE "KeyError"

\* the loop of release_elements from position k of the order on, without
\* an exception: the rows of each spill are appended to every column and
\* get the index of their substance
RECURSIVE ReleaseFrom(_, _, _, _)
ReleaseFrom(c, order, k, nrel) ==
    IF k > Len(order) THEN c
    ELSE IF nrel[order[k].spill] = 0 THEN ReleaseFrom(c, order, k + 1, nrel)
    ELSE LET Label(c1) ==
                 IF Len(c1.part.substances) > 1
                 THEN [c1 EXCEPT !.cols["substance"].cells =
                          [i \in 1..Len(@) |->
                              IF i > Len(@) - nrel[order[k].spill]
                              THEN order[k].subs_idx ELSE @[i]]]
                 ELSE c1
         IN  ReleaseFrom(
                 Label(AppendCells(c, order[k].spill, nrel[order[k].spill],
                                   DOMAIN c.cols)),
                 order, k + 1, nrel)

\* _update_substance_array_reset_data for the substances up to n: with
\* several substances each gets a new empty dict
ResetData(c, n) ==
    IF Len(c.part.substances) > 1
    THEN [c EXCEPT !.part.data =
             [x \in 1..Len(@) |->
                 IF x <= n THEN [dict |-> "own", cache |-> <<>>] ELSE @[x]]]
    ELSE c

\* the first spill of the order that releases
FirstReleasing(order, nrel) ==
    CHOOSE k \in 1..Len(order) :
        /\ nrel[order[k].spill] > 0
        /\ \A j \in 1..(k - 1) : nrel[order[j].spill] = 0

\* SpillContainer.release_elements: the container it leaves.  When a column
\* is missing the first releasing spill ends the call: without spill_num
\* nothing is appended, otherwise the columns of done, the ones
\* _append_data_arrays visited before the missing one, have the new rows
release_elements_container(c, nrel, done) ==
    LET Raise(c1, order) ==
            IF "spill_num" \notin DOMAIN c1.cols
            THEN ResetData(c1, order[FirstReleasing(order, nrel)].subs_idx)
            ELSE AppendCells(
                     ResetData(c1,
                               order[FirstReleasing(order, nrel)].subs_idx),
                     order[FirstReleasing(order, nrel)].spill,
                     nrel[order[FirstReleasing(order, nrel)].spill], done)
        Run(c1) ==
            IF release_error(c, nrel) = "none"
            THEN ResetData(ReleaseFrom(c1, SpillOrder(c1.part, 1), 1, nrel),
                           Len(c1.part.substances))
            ELSE Raise(c1, SpillOrder(c1.part, 1))
    IN  Run(WithPartition(c))

\* the rows model_step_is_done deletes
ToBeRemoved(c) ==
    {i \in 1..Len(c.cols["status_codes"].cells) :
        c.cols["status_codes"].cells[i] = to_be_removed}

\* np.delete(column, to_be_removed, axis=0)
DeleteCells(cells, rows) ==
    LET keep == {i \in 1..Len(cells) : i \notin rows}
        Nth(k) == CHOOSE i \in keep : Cardinality({j \in keep : j <= i}) = k
    IN  [k \in 1..Cardinality(keep) |-> cells[Nth(k)]]

\* the exception model_step_is_done ends with: with several substances
\* _reset_substances_spills_data reads self['substances']; with one, the
\* column of a declared array type may be missing
step_done_error(c) ==
    IF DOMAIN c.cols = {} THEN "none"
    ELSE IF "status_codes" \notin DOMAIN c.cols THEN "KeyError"
    ELSE IF ToBeRemoved(c) = {} THEN "none"
    ELSE IF Len(WithPartition(c).part.substances) > 1
            /\ ResetDataKey \notin DOMAIN c.cols
         THEN "KeyError"
    ELSE IF DOMAIN c.types \subseteq DOMAIN c.cols THEN "none"
    ELSE "KeyError"

\* model_step_is_done gets as far as np.delete
StepDoneDeletes(c) ==
    /\ "status_codes" \in DOMAIN c.cols
    /\ ToBeRemoved(c) # {}
    /\ \/ Len(WithPartition(c).part.substances) <= 1
       \/ ResetDataKey \in DOMAIN c.cols

\* SpillContainer.model_step_is_done: the container it leaves; done are
\* the columns visited before a missing one
model_step_is_done_container(c, done) ==
    IF DOMAIN c.cols = {} \/ "status_codes" \notin DOMAIN c.cols THEN c
    ELSE IF ToBeRemoved(c) = {} THEN c
    ELSE IF ~StepDoneDeletes(c) THEN WithPartition(c)
    ELSE LET Delete(c1) ==
                 [c1 EXCEPT !.cols =
                     [name \in DOMAIN c.cols |->
                         IF name \in done
                         THEN [c.cols[name] EXCEPT
                                  !.cells = DeleteCells(@, ToBeRemoved(c))]
                         ELSE c.cols[name]]]
         IN  Delete(WithPartition(c))

\* the arrays handed to __setitem__: np.asarray(array) has a dtype and is a
\* scalar (shape ()) or has rows
SetItemArrays ==
    {[dtype |-> d, scalar |-> TRUE, cells |-> <<1>>] : d \in {"int", "float"}}
    \cup {[dtype |-> d, scalar |-> FALSE, cells |-> [i \in 1..n |-> 1]] :
             d \in {"int", "float"}, n \in 0..MaxRows}

\* __setitem__ with the shape test left out
setitem_error_NoShapeTest(c, name, array) ==
    IF name \in DOMAIN c.cols
    THEN IF array.dtype # c.cols[name].dtype THEN "ValueError" ELSE "none"
    ELSE IF array.scalar THEN "TypeError"
    ELSE IF Len(array.cells) \notin ContainerLen(c) THEN "IndexError"
    ELSE "none"

\* the exception SpillContainerData.__setitem__ ends with
setitem_error(c, name, array) ==
    IF name \in DOMAIN c.cols
    THEN IF array.dtype # c.cols[name].dtype THEN "ValueError"
         ELSE IF array.scalar
                 \/ Len(array.cells) # Len(c.cols[name].cells)
              THEN "ValueError"
         ELSE "none"
    ELSE IF array.scalar THEN "TypeError"
    ELSE IF Len(array.cells) \notin ContainerLen(c) THEN "IndexError"
    ELSE "none"

\* SpillContainer.__setitem__: the container it leaves
setitem(c, name, array) ==
    IF setitem_error(c, name, array) # "none" THEN c
    ELSE [c EXCEPT
             !.cols = [n \in DOMAIN c.cols \cup {name} |->
                          IF n = name
                          THEN [dtype |-> array.dtype, cells |-> array.cells]
                          ELSE c.cols[n]],
             !.types = [n \in DOMAIN c.types \cup {name} |->
                           IF n \in DOMAIN c.types THEN c.types[n]
                           ELSE array.dtype]]

\* a caller of substancedata or itersubstancedata writes 1 to row i of the
\* mass array of the data of the only substance: the write lands in the
\* dict data[0] refers to
WriteSubstanceData(c, i) ==
    LET Write(c1) ==
            IF c1.part.data[1].dict = c1.gen
            THEN [c1 EXCEPT !.cols["mass"].cells[i] = 1]
            ELSE c1
    IN  Write(WithPartition(c))

\* the array a caller of itersubstancedata asks for
IterateArray == "id"

\* the exception _set_substancedata ends with: self['substance'] or
\* self[array] is missing, or the mask is not as long as the array
set_substancedata_error(c) ==
    IF ~({"substance", IterateArray} \subseteq DOMAIN c.cols)
    THEN "KeyError"
    ELSE IF Len(c.cols["substance"].cells) # Len(c.cols[IterateArray].cells)
         THEN "IndexError"
    ELSE "none"

\* self[array][self['substance'] == ix]
MaskedCells(c, array, ix) ==
    LET rows == {i \in 1..Len(c.cols["substance"].cells) :
                    c.cols["substance"].cells[i] = ix}
    IN  DeleteCells(c.cols[array].cells,
                    (1..Len(c.cols[array].cells)) \ rows)

\* the loop of _set_substancedata from substance x on: a dict that lacks
\* the array gets the rows of x; an assignment to the dict the entries
\* share shows in every entry that still refers to it
RECURSIVE set_substancedata(_, _, _)
set_substancedata(c, x, array) ==
    IF x > Len(c.part.substances) THEN c
    ELSE IF array \in DOMAIN c.part.data[x].cache
         THEN set_substancedata(c, x + 1, array)
    ELSE LET Put(e) ==
                 [e EXCEPT !.cache =
                     [a \in DOMAIN @ \cup {array} |->
                         IF a = array THEN MaskedCells(c, array, x - 1)
                         ELSE @[a]]]
             SameDict(y) ==
                 \/ y = x
                 \/ /\ c.part.data[x].dict = "shared"
                    /\ c.part.data[y].dict = "shared"
         IN  set_substancedata(
                 [c EXCEPT !.part.data =
                     [y \in 1..Len(@) |->
                         IF SameDict(y) THEN Put(@[y]) ELSE @[y]]],
                 x + 1, array)

\* what the operations of the container leave alone
ContainerFrame ==
    UNCHANGED <<todo, model_time, horizon, substance, data, last_id, le,
                num_new, released, wd, sk, burn, disp, removed, skim_taken,
                skim_short>>

\* spills += spill, with the callback _spills_changed
AddSpill ==
    /\ pc = "run"
    /\ \E l \in SpillLists :
          /\ Len(sc.spills) < Len(l)
          /\ sc.spills = SubSeq(l, 1, Len(sc.spills))
          /\ sc' = [sc EXCEPT !.spills = Append(@, l[Len(sc.spills) + 1]),
                              !.part = NoPartition]
    /\ op' = "add_spill"
    /\ UNCHANGED <<pc, error>>
    /\ ContainerFrame

ContainerPrepare ==
    /\ pc = "run"
    /\ \E array_types \in GivenArrayTypes :
          sc' = prepare_for_model_run(sc, array_types)
    /\ op' = "prepare_for_model_run"
    /\ UNCHANGED <<pc, error>>
    /\ ContainerFrame

ContainerRelease ==
    /\ pc = "run"
    /\ \E nrel \in [1..Len(sc.spills) -> 0..MaxRows] :
          /\ \A n \in ContainerLen(sc) :
                n + SumTo(nrel, Len(sc.spills)) <= MaxRows
          /\ error' = release_error(sc, nrel)
          /\ IF release_error(sc, nrel) = "none"
                \/ "spill_num" \notin DOMAIN sc.cols
             THEN sc' = release_elements_container(sc, nrel, {})
             ELSE \E done \in SUBSET (DOMAIN sc.cols) :
                     sc' = release_elements_container(sc, nrel, done)
          /\ "id" \in DOMAIN sc'.cols
                => \A i \in 1..Len(sc'.cols["id"].cells) :
                       sc'.cols["id"].cells[i] <= MaxRows
    /\ pc' = IF error' = "none" THEN pc ELSE Raised
    /\ op' = "release_elements"
    /\ ContainerFrame

\* a mover takes a particle out of the water
ContainerMove ==
    /\ pc = "run"
    /\ "status_codes" \in DOMAIN sc.cols
    /\ \E i \in 1..Len(sc.cols["status_codes"].cells) :
          /\ sc.cols["status_codes"].cells[i] = in_water
          /\ sc' = [sc EXCEPT !.cols["status_codes"].cells[i] = to_be_removed]
    /\ op' = "move_elements"
    /\ UNCHANGED <<pc, error>>
    /\ ContainerFrame

ContainerStepDone ==
    /\ pc = "run"
    /\ error' = step_done_error(sc)
    /\ IF step_done_error(sc) = "none" \/ ~StepDoneDeletes(sc)
       THEN sc' = model_step_is_done_container(sc, DOMAIN sc.cols)
       ELSE \E done \in SUBSET (DOMAIN sc.cols) :
               sc' = model_step_is_done_container(sc, done)
    /\ pc' = IF error' = "none" THEN pc ELSE Raised
    /\ op' = "model_step_is_done"
    /\ ContainerFrame

ContainerRewind ==
    /\ pc = "run"
    /\ sc' = rewind(sc)
    /\ op' = "rewind"
    /\ UNCHANGED <<pc, error>>
    /\ ContainerFrame

ContainerSetItem ==
    /\ pc = "run"
    /\ \E array \in SetItemArrays :
          /\ error' = setitem_error(sc, "mass", array)
          /\ sc' = setitem(sc, "mass", array)
    /\ pc' = IF error' = "none" THEN pc ELSE Raised
    /\ op' = "setitem"
    /\ ContainerFrame

\* a weatherer's prepare_for_model_run puts its total into weathering_data
ContainerSetTotal ==
    /\ pc = "run"
    /\ Len(sc.spills) > 0
    /\ sc.wd = {}
    /\ sc' = [sc EXCEPT !.wd = {"skimmed"}]
    /\ op' = "set_total"
    /\ UNCHANGED <<pc, error>>
    /\ ContainerFrame

\* a weatherer changes a mass through the data of the only substance
ContainerWrite ==
    /\ pc = "run"
    /\ Len(WithPartition(sc).part.substances) = 1
    /\ "mass" \in DOMAIN sc.cols
    /\ \E i \in 1..Len(sc.cols["mass"].cells) :
          /\ sc.cols["mass"].cells[i] = 0
          /\ sc' = WriteSubstanceData(sc, i)
    /\ op' = "write_substancedata"
    /\ UNCHANGED <<pc, error>>
    /\ ContainerFrame

\* update_from_substancedata with one substance returns at once
ContainerUpdateFrom ==
    /\ pc = "run"
    /\ Len(WithPartition(sc).part.substances) = 1
    /\ sc' = WithPartition(sc)
    /\ op' = "update_from_substancedata"
    /\ UNCHANGED <<pc, error>>
    /\ ContainerFrame

\* itersubstancedata([array]) with several substances
ContainerIterate ==
    /\ pc = "run"
    /\ Len(WithPartition(sc).part.substances) > 1
    /\ error' = set_substancedata_error(sc)
    /\ sc' = IF set_substancedata_error(sc) = "none"
             THEN set_substancedata(WithPartition(sc), 1, IterateArray)
             ELSE WithPartition(sc)
    /\ pc' = IF error' = "none" THEN pc ELSE Raised
    /\ op' = "itersubstancedata"
    /\ ContainerFrame

NextContainer ==
    \/ AddSpill
    \/ ContainerPrepare
    \/ ContainerRelease
    \/ ContainerMove
    \/ ContainerStepDone
    \/ ContainerRewind
    \/ ContainerSetItem
    \/ ContainerSetTotal
    \/ ContainerWrite
    \/ ContainerUpdateFrom
    \/ ContainerIterate

\* a container as constructed; the weatherers take no part in these runs
InitContainer ==
    /\ InitStore
    /\ horizon = MaxSteps
    /\ substance = <<OilA>>
    /\ data = InitData(substance)
    /\ sk = InitSkimmer(FALSE, 4, <<TimeStep, 2 * TimeStep>>)
    /\ burn = InitWeatherer(FALSE, BurnWindow)
    /\ disp = InitWeatherer(FALSE, DispersionWindow)

SpecContainer == InitContainer /\ [][NextContainer]_vars

----------------------------------------------------------------------------
(* properties of the Skimmer's marking *)

\* mass of the first n rows of the store
PrefixMass(store, n) == RSum(Column(SubSeq(store, 1, n), "mass"))

\* C30: when an active Skimmer's prepare_for_model_step finds no row with
\* status skim, it marks as skim exactly the shortest prefix of the rows, in
\* row order, whose cumulative mass reaches or exceeds amount x efficiency,
\* and every row when the mass of all rows stays below that threshold
C30_MarksShortestPrefix ==
    [][(/\ op' = "skimmer_prepare"
        /\ sk'.active
        /\ \A i \in Rows : le[i].status # skim)
       => /\ Len(le') = Len(le)
          /\ \E n \in 0..Len(le) :
                /\ \A i \in Rows :
                      le'[i].status = IF i <= n THEN skim ELSE le[i].status
                /\ RGe(PrefixMass(le, n), SkimThreshold(sk)) \/ n = Len(le)
                /\ \A m \in 0..(n - 1) :
                      RLt(PrefixMass(le, m), SkimThreshold(sk))]_vars

\* the Skimmer has just marked a prefix shorter than the store whose mass
\* is exactly the threshold
C30_Witness ==
    /\ op = "skimmer_prepare"
    /\ sk.active
    /\ skim_taken = R(0)
    /\ \E n \in 1..(Len(le) - 1) :
          /\ \A i \in Rows : (le[i].status = skim) = (i <= n)
          /\ REq(PrefixMass(le, n), SkimThreshold(sk))

\* the model time lies in the Skimmer's window
InSkimWindow == sk.active_start <= model_time /\ model_time < sk.active_stop

\* C28: a Skimmer whose on flag is false is inactive after
\* prepare_for_model_step, whether the model time lies inside or outside
\* its window, and its prepare_for_model_step and weather_elements change
\* no column of the store and no total of weathering_data
C28_OffSkimmerDoesNothing ==
    [][(~sk.on /\ op' \in {"skimmer_prepare", "skimmer_weather"})
       => /\ ~sk'.active
          /\ le' = le
          /\ wd' = wd]_vars

\* weather_elements of a Skimmer that is off has run inside its window on
\* a store with particles
C28_Witness ==
    /\ ~sk.on
    /\ op = "skimmer_weather"
    /\ InSkimWindow
    /\ Len(le) > 0

----------------------------------------------------------------------------
(* runs of the three weatherers on a container with one substance or with   *)
(* two: the spills carry the substances in turn                             *)

\* Skimmer windows of these runs: one opens in the first step, the other
\* with the second
MultiSkimWindows == { <<1, TimeStep + 1>>, <<TimeStep, 2 * TimeStep>> }

MultiSubstanceLists == {<<OilA>>, <<OilA, OilB>>}

InitMulti ==
    /\ InitStore
    /\ horizon = MaxSteps
    /\ substance \in MultiSubstanceLists
    /\ data = InitData(substance)
    /\ \E w \in MultiSkimWindows : sk = InitSkimmer(TRUE, 4, w)
    /\ burn = InitWeatherer(TRUE, BurnWindow)
    /\ disp = InitWeatherer(TRUE, DispersionWindow)

SpecMulti == InitMulti /\ [][Next]_vars

\* the calls that update or weather the particles
WeatheringOps ==
    {"update", "skimmer_prepare", "skimmer_weather", "burn_weather",
     "dispersion_weather"}

\* C25: on a store with zero particles IntrinsicProps.update,
\* Skimmer.prepare_for_model_step and the weather_elements of the Skimmer,
\* of Burn and of Dispersion do nothing: none raises, none changes a column
\* of the store and none changes a total of weathering_data
C25_ZeroParticlesNoOps ==
    [][(Len(le) = 0 /\ op' \in WeatheringOps)
       => /\ error' = "none"
          /\ le' = le
          /\ wd' = wd]_vars

\* C26: with more than one oil substance an active Skimmer reports an error
\* and the run goes on: its prepare_for_model_step logs the error when it
\* marks, and neither prepare_for_model_step nor weather_elements raises,
\* in any step
C26_MultiSubstanceSkimmerContinues ==
    [][(/\ NumSubstances > 1
        /\ op' \in {"skimmer_prepare", "skimmer_weather"}
        /\ sk'.active)
       => /\ error' = "none"
          /\ (\E i \in 1..Len(le') : le'[i].status = skim) => sk'.logged]_vars

\* the status of row i a weatherer reads: the store's with one substance,
\* otherwise the working copy's where the copy holds the array
StatusRead(i) ==
    IF NumSubstances = 1 THEN le[i].status
    ELSE IF "status" \in DOMAIN data[le[i].substance + 1]
         THEN data[le[i].substance + 1]["status"][RankInSubstance(le, i)]
         ELSE le[i].status

\* the rows a weatherer handles together with row i
SameSubstance(i) ==
    {j \in Rows : NumSubstances = 1 \/ le[j].substance = le[i].substance}

\* mass in the store of the rows of i's substance a Skimmer reads as skim
SkimMassRead(i) ==
    RSum([j \in Rows |->
            IF j \in SameSubstance(i) /\ StatusRead(j) = skim
            THEN le[j].mass ELSE R(0)])

\* the store after a weatherer took the fraction 1 - remain from the rows
\* of the set hit, computed from the mass_components now in the store
Taken(hit, remain(_)) ==
    \A i \in Rows :
        /\ le'[i].mass_components =
               IF i \in hit
               THEN [k \in 1..NumComp |->
                        RMul(remain(i), le[i].mass_components[k])]
               ELSE le[i].mass_components
        /\ le'[i].mass = IF i \in hit THEN RSum(le'[i].mass_components)
                         ELSE le[i].mass

\* C23: when the Skimmer, Burn and Dispersion run one after another in a
\* step, with one substance or with several, each weatherer works on the
\* mass and mass_components the previous one left in the store, and the
\* store holds the result of each as soon as it returns: no removal is lost
C23_NoLostUpdate ==
    [][/\ (op' = "burn_weather" /\ burn.active /\ Len(le) > 0)
          => Taken({i \in Rows : StatusRead(i) = in_water},
                   LAMBDA i : BurnRemain)
       /\ (op' = "dispersion_weather" /\ disp.active /\ Len(le) > 0)
          => Taken({i \in Rows : StatusRead(i) = in_water},
                   LAMBDA i : DispersionRemain)
       /\ (op' = "skimmer_weather" /\ sk.active /\ Len(le) > 0)
          => Taken({i \in Rows : StatusRead(i) = skim},
                   LAMBDA i : RSub(R(1), RDiv(SkimmerRmMass(sk),
                                              SkimMassRead(i))))
       /\ (op' \in {"burn_weather", "dispersion_weather", "skimmer_weather"}
           /\ NumSubstances > 1)
          => \A x \in 1..NumSubstances :
                \A a \in {"mass", "mass_components"} \cap DOMAIN data'[x] :
                    data'[x][a] = Column(SubstanceRows(le', x - 1), a)]_vars

\* the three weatherers have run in one step on particles of two
\* substances, some marked for skimming and some in the water
C23_Witness ==
    /\ NumSubstances > 1
    /\ pc = "weather"
    /\ todo = {}
    /\ sk.active /\ burn.active /\ disp.active
    /\ \E i, j \in Rows :
          /\ le[i].substance # le[j].substance
          /\ le[i].status = skim
          /\ le[j].status = in_water
          /\ RLt(le[i].mass, le[i].init_mass)
          /\ RLt(le[j].mass, le[j].init_mass)

----------------------------------------------------------------------------
(* properties of the container's partition, array types and columns *)

\* the partition entry that holds spill k
EntryOf(k) ==
    CHOOSE x \in 1..Len(sc.part.spills) :
        \E p \in 1..Len(sc.part.spills[x]) : sc.part.spills[x][p] = k

\* C21: two spills are in one partition entry only when they carry the
\* identical substance instance; spills whose substances are distinct
\* objects with equal contents are in two separate entries
C21_GroupedByInstance ==
    sc.part.valid
        => \A i, j \in 1..Len(sc.spills) :
               (EntryOf(i) = EntryOf(j)) <=> (sc.spills[i] = sc.spills[j])

\* C21 as the code has it: two spills are in one partition entry exactly
\* when their substances compare equal, which they do when they are one
\* object or have equal contents
C21_GroupedByEquality ==
    sc.part.valid
        => \A i, j \in 1..Len(sc.spills) :
               (EntryOf(i) = EntryOf(j))
                   <=> (SubstanceObjects[sc.spills[i]]
                            = SubstanceObjects[sc.spills[j]])

\* two spills with distinct substance objects of equal contents share the
\* only entry of the partition
C21_Witness ==
    /\ sc.part.valid
    /\ Len(sc.spills) = 2
    /\ sc.spills[1] # sc.spills[2]
    /\ SubstanceObjects[sc.spills[1]] = SubstanceObjects[sc.spills[2]]
    /\ sc.part.spills = <<(<<1, 2>>)>>

\* C22: with exactly one substance the data of the substance is the dict
\* of the main store itself, whatever release_elements, model_step_is_done,
\* rewind and prepare_for_model_run did before: a change made through it is
\* a change of the column of the main store, and update_from_substancedata
\* leaves the columns as they are
C22_OneSubstanceIsTheStore ==
    [][/\ (sc'.part.valid /\ Len(sc'.part.substances) = 1)
              => sc'.part.data[1].dict = sc'.gen
       /\ op' = "write_substancedata"
              => \E i \in 1..Len(sc.cols["mass"].cells) :
                    /\ sc.cols["mass"].cells[i] = 0
                    /\ sc'.cols = [sc.cols EXCEPT !["mass"].cells[i] = 1]
       /\ op' = "update_from_substancedata"
              => /\ sc'.cols = sc.cols
                 /\ error' = "none"]_vars

\* after a rewind, a prepare_for_model_run and a release, a mass was
\* changed through the data of the only substance
C22_Witness ==
    /\ op = "write_substancedata"
    /\ sc.gen = 1
    /\ sc.setup
    /\ Len(sc.part.substances) = 1
    /\ \E i \in 1..Len(sc.cols["mass"].cells) : sc.cols["mass"].cells[i] = 1

\* C29: rewind leaves a column of no rows for each default array type and
\* no other column, no array type besides the defaults, an empty
\* weathering_data and no partition; and a release into a store whose
\* columns have no rows gives its first particle the id 0
C29_RewindEmptiesTheStore ==
    [][/\ op' = "rewind"
              => /\ DOMAIN sc'.cols = DefaultArrayTypes
                 /\ DOMAIN sc'.types = DefaultArrayTypes
                 /\ \A n \in DOMAIN sc'.cols : sc'.cols[n].cells = <<>>
                 /\ sc'.wd = {}
                 /\ ~sc'.part.valid
       /\ (/\ op' = "release_elements"
           /\ ContainerLen(sc) = {0}
           /\ "id" \in DOMAIN sc'.cols
           /\ Len(sc'.cols["id"].cells) > 0)
              => sc'.cols["id"].cells[1] = 0]_vars

\* after a rewind and a prepare_for_model_run with the array type density,
\* particles were released and the first has the id 0
C29_Witness ==
    /\ op = "release_elements"
    /\ error = "none"
    /\ sc.gen = 1
    /\ "density" \in DOMAIN sc.cols
    /\ Len(sc.cols["id"].cells) > 0
    /\ sc.cols["id"].cells[1] = 0

\* the array of a __setitem__ on the existing column mass has another
\* dtype than the column
DtypeDiffers(array) ==
    /\ "mass" \in DOMAIN sc.cols
    /\ array.dtype # sc.cols["mass"].dtype

\* the array has the dtype of the column mass and another shape
ShapeDiffers(array) ==
    /\ "mass" \in DOMAIN sc.cols
    /\ array.dtype = sc.cols["mass"].dtype
    /\ array.scalar \/ Len(array.cells) # Len(sc.cols["mass"].cells)

\* the step is the __setitem__ of this array on the column mass
SetItemOf(array) ==
    /\ op' = "setitem"
    /\ error' = setitem_error(sc, "mass", array)
    /\ sc' = setitem(sc, "mass", array)

\* C24 as stated: a write with another dtype fails with TypeError, a write
\* with another shape with ValueError, and the column stays as it was
C24_DtypeMismatchIsTypeError ==
    [][\A array \in SetItemArrays :
          /\ (SetItemOf(array) /\ DtypeDiffers(array))
                 => (error' = "TypeError" /\ sc' = sc)
          /\ (SetItemOf(array) /\ ShapeDiffers(array))
                 => (error' = "ValueError" /\ sc' = sc)]_vars

\* C24: a write to an existing column fails with ValueError when the dtype
\* of the new array differs from the column's and with ValueError when its
\* shape differs, and the column stays as it was
C24_MismatchIsValueError ==
    [][\A array \in SetItemArrays :
          (SetItemOf(array) /\ (DtypeDiffers(array) \/ ShapeDiffers(array)))
              => (error' = "ValueError" /\ sc' = sc)]_vars

\* a write to the column mass of a store with rows has failed with
\* ValueError
C24_Witness ==
    /\ op = "setitem"
    /\ error = "ValueError"
    /\ Len(sc.cols["mass"].cells) > 0

\* C27: once rewind or prepare_for_model_run has set up the columns, and as
\* long as no call has raised, every column has the same row count, every
\* declared array type has a column and every column a declared array type
C27_ColumnsConsistent ==
    (sc.setup /\ error = "none")
        => /\ DOMAIN sc.cols = DOMAIN sc.types
           /\ \A n, m \in DOMAIN sc.cols :
                  Len(sc.cols[n].cells) = Len(sc.cols[m].cells)

----------------------------------------------------------------------------
(* properties of the marked particles *)

\* C31: once a particle carries the status skim, prepare_for_model_step of
\* the Skimmer changes no status, whatever has been released since
C31_MarkedOnce ==
    [][(/\ op' = "skimmer_prepare"
        /\ \E i \in Rows : le[i].status = skim)
           => Column(le', "status") = Column(le, "status")]_vars

\* the Skimmer, which took mass in an earlier step, is active again and has
\* left a particle released in this step in the water
C31_Witness ==
    /\ op = "skimmer_prepare"
    /\ sk.active
    /\ RGt(skim_taken, R(0))
    /\ \E i \in Rows : le[i].status = skim
    /\ \E j \in Rows : le[j].status = in_water /\ le[j].age = 0

\* Skimmer.weather_elements has run its loop in this step
SkimmerWeathers ==
    /\ op' = "skimmer_weather"
    /\ sk.active
    /\ Len(le) > 0

\* the rows marked for skimming took one common factor: the components of
\* any two of them changed in the same ratio
CommonFactor ==
    \A i, j \in Rows :
        (le[i].status = skim /\ le[j].status = skim)
            => \A k, l \in 1..NumComp :
                   REq(RMul(le'[i].mass_components[k],
                            le[j].mass_components[l]),
                       RMul(le'[j].mass_components[l],
                            le[i].mass_components[k]))

\* C32: an active Skimmer.weather_elements scales the components of the
\* marked particles by one common factor, leaves the other particles as
\* they are, and adds rate x _timestep x efficiency to skimmed, which is
\* the mass the marked particles lost in the step
C32_SkimmedIsMassTaken ==
    [][SkimmerWeathers
          => /\ CommonFactor
             /\ \A i \in Rows : le[i].status # skim => le'[i] = le[i]
             /\ REq(RSub(wd'["skimmed"], wd["skimmed"]),
                    RMul(RMul(sk.rate, sk.timestep), sk.efficiency))
             /\ REq(RSub(wd'["skimmed"], wd["skimmed"]),
                    RSub(MassWithStatus(le, skim),
                         MassWithStatus(le', skim)))]_vars

\* an initialized row of age 0: IntrinsicProps.update hands it to
\* _update_old_particles, and update_area raises ValueError for it
AgeZeroOnAgedPath ==
    \E i \in Rows : le[i].density # 0 /\ le[i].age = 0

\* C34: no call of IntrinsicProps.update finds an initialized particle of
\* age 0, so update_area is reached with age > 0 only and update does not
\* end with the exception 'age must be > 0', a second call of update
\* within one step included
C34_AgedPathOnlyForAged ==
    [][op' \in UpdateOps
          => /\ ~AgeZeroOnAgedPath
             /\ (error' = "ValueError"
                    => \E i \in Rows :
                          le[i].density = 0 \/
                          CheckRelativeBouyancy(le[i].relative_bouyancy)
                              # "none")]_vars

----------------------------------------------------------------------------
(* the working copies of several substances: a caller asks for them with    *)
(* itersubstancedata, changes cells of a copy and writes the copies back    *)
(* with update_from_substancedata, between releases.  The second spill      *)
(* carries another oil or None.                                             *)

WriteBackSubstanceLists == {<<OilA, OilB>>, <<OilA, NoneSubstance>>}

\* the lists of arrays the callers hand over
WriteBackArrays == {{"mass"}, WeathererArrays}

\* the substances whose copy lacks one of the arrays
Lacking(arrays) ==
    {x \in 1..NumSubstances :
        /\ substance[x] # NoneSubstance
        /\ ~(arrays \subseteq DOMAIN data[x])}

\* the store update_from_substancedata leaves when data[array] raises
\* KeyError for substance x0: the substances before x0 are written, and of
\* x0 the arrays of done, the ones listed before the missing one
PartialUpdate(store, d, arrays, x0, done) ==
    [i \in 1..Len(store) |->
        [a \in DOMAIN store[i] |->
            IF /\ substance[store[i].substance + 1] # NoneSubstance
               /\ \/ store[i].substance + 1 < x0 /\ a \in arrays
                  \/ store[i].substance + 1 = x0 /\ a \in done
            THEN d[store[i].substance + 1][a][RankInSubstance(store, i)]
            ELSE store[i][a]]]

WriteBackFrame ==
    UNCHANGED <<todo, model_time, horizon, substance, sc, wd, sk, burn, disp,
                removed, skim_taken, skim_short>>

WbRelease ==
    /\ pc = "run"
    /\ \E nrel \in [1..NumSpills -> 0..MaxRelease] :
          /\ SumTo(nrel, NumSpills) > 0
          /\ released + SumTo(nrel, NumSpills) <= MaxLE
          /\ release_elements(nrel)
    /\ op' = "release_elements"
    /\ UNCHANGED <<pc, error>>
    /\ WriteBackFrame

\* itersubstancedata(arrays)
WbIterate ==
    /\ pc = "run"
    /\ \E arrays \in WriteBackArrays :
          data' = SetSubstanceData(le, data, arrays)
    /\ op' = "itersubstancedata"
    /\ UNCHANGED <<pc, error, le, num_new, released, last_id>>
    /\ WriteBackFrame

\* the caller changes a mass or a status in the copy of a substance
WbChange ==
    /\ pc = "run"
    /\ \E x \in 1..NumSubstances :
          \/ /\ "mass" \in DOMAIN data[x]
             /\ \E k \in 1..Len(data[x]["mass"]) :
                   /\ data[x]["mass"][k] # R(1)
                   /\ data' = [data EXCEPT ![x]["mass"][k] = R(1)]
          \/ /\ "status" \in DOMAIN data[x]
             /\ \E k \in 1..Len(data[x]["status"]) :
                   /\ data[x]["status"][k] = in_water
                   /\ data' = [data EXCEPT ![x]["status"][k] = skim]
    /\ op' = "change"
    /\ UNCHANGED <<pc, error, le, num_new, released, last_id>>
    /\ WriteBackFrame

\* update_from_substancedata(arrays)
WbUpdate ==
    /\ pc = "run"
    /\ \E arrays \in WriteBackArrays :
          IF Lacking(arrays) = {}
          THEN /\ le' = UpdateFromSubstanceData(le, data, arrays)
               /\ error' = "none"
          ELSE /\ error' = "KeyError"
               /\ \E x0 \in Lacking(arrays) :
                     /\ \A x \in Lacking(arrays) : x0 <= x
                     /\ \E done \in SUBSET (arrays \cap DOMAIN data[x0]) :
                           le' = PartialUpdate(le, data, arrays, x0, done)
    /\ pc' = IF error' = "none" THEN pc ELSE Raised
    /\ op' = "update_from_substancedata"
    /\ UNCHANGED <<data, num_new, released, last_id>>
    /\ WriteBackFrame

NextWriteBack ==
    \/ WbRelease
    \/ WbIterate
    \/ WbChange
    \/ WbUpdate

InitWriteBack ==
    /\ InitStore
    /\ horizon = MaxSteps
    /\ substance \in WriteBackSubstanceLists
    /\ data = InitData(substance)
    /\ sk = InitSkimmer(FALSE, 4, <<TimeStep, 2 * TimeStep>>)
    /\ burn = InitWeatherer(FALSE, BurnWindow)
    /\ disp = InitWeatherer(FALSE, DispersionWindow)

SpecWriteBack == InitWriteBack /\ [][NextWriteBack]_vars

\* C33: with several substances, after update_from_substancedata(arrays)
\* every row of the store labelled with a substance takes, for each listed
\* array, the value of its row in the working copy of that substance and
\* keeps its other columns; the rows of the substance None are unchanged
C33_WriteBackCopiesRows ==
    [][(op' = "update_from_substancedata" /\ error' = "none")
          => /\ Len(le') = Len(le)
             /\ \E arrays \in WriteBackArrays :
                   /\ Lacking(arrays) = {}
                   /\ \A i \in Rows :
                         IF substance[le[i].substance + 1] = NoneSubstance
                         THEN le'[i] = le[i]
                         ELSE \A a \in DOMAIN le[i] :
                                 le'[i][a] =
                                     IF a \in arrays
                                     THEN data[le[i].substance + 1][a][
                                              RankInSubstance(le, i)]
                                     ELSE le[i][a]]_vars

\* copies were written back to a store that holds a row of the substance
\* None, still with the mass it was released with, and a row of an oil
\* with the mass and the status set in its copy
C33_Witness ==
    /\ op = "update_from_substancedata"
    /\ error = "none"
    /\ \E i, j \in Rows :
          /\ substance[le[i].substance + 1] = NoneSubstance
          /\ le[i].mass = SpillMass[2]
          /\ substance[le[j].substance + 1] # NoneSubstance
          /\ le[j].mass = R(1)
          /\ le[j].status = skim

\* C35: with several substances release_elements leaves the rows it found
\* as they were, labels every new row with the partition index of the
\* substance of its spill, and empties every working copy, so that the
\* copies the next itersubstancedata makes are the rows the store holds of
\* each substance
C35_ReleaseLabelsAndDiscards ==
    [][(op' = "release_elements" /\ NumSubstances > 1)
          => /\ \A i \in Rows : le'[i] = le[i]
             /\ \A i \in (Len(le) + 1)..Len(le') :
                   le'[i].substance =
                       SubstanceOfSpill(le'[i].spill_num + 1) - 1
             /\ \A x \in 1..NumSubstances : data'[x] = <<>>
             /\ \A arrays \in WriteBackArrays, x \in 1..NumSubstances :
                   substance[x] # NoneSubstance
                       => \A a \in arrays :
                             SetSubstanceData(le', data', arrays)[x][a] =
                                 Column(SubstanceRows(le', x - 1), a)]_vars

\* a release has put a row of the first substance behind a row of the
\* second, whose mass had been changed through its working copy
C35_Witness ==
    /\ op = "release_elements"
    /\ \A x \in 1..NumSubstances : data[x] = <<>>
    /\ \E i, j \in Rows :
          /\ i < j
          /\ le[i].substance = 1
          /\ le[i].mass = R(1)
          /\ le[j].substance = 0
          /\ le[j].spill_num = 0

\* what a call of Burn or Dispersion owes: the total of key grows by the
\* mass the population lost, no status changes, and the rows that are not
\* in the water keep mass and mass_components
FractionFrame(key) ==
    /\ REq(RSub(wd'[key], wd[key]), RSub(TotalMass(le), TotalMass(le')))
    /\ Column(le', "status") = Column(le, "status")
    /\ \A i \in Rows :
          le[i].status # in_water
              => /\ le'[i].mass = le[i].mass
                 /\ le'[i].mass_components = le[i].mass_components

\* C36: an active weather_elements of Burn adds to burned, and one of
\* Dispersion to dispersed, the mass the population lost in the call, and
\* changes no status and no mass or mass_components of a particle that is
\* not in the water, the particles marked for skimming included
C36_RemovedIsMassDecrease ==
    [][/\ (op' = "burn_weather" /\ burn.active /\ Len(le) > 0)
           => FractionFrame("burned")
       /\ (op' = "dispersion_weather" /\ disp.active /\ Len(le) > 0)
           => FractionFrame("dispersed")]_vars

----------------------------------------------------------------------------
(* runs in which the amount of the Skimmer is assigned between two steps *)

\* skimmer.amount = a: amount is a plain attribute listed in _state as
\* updatable; the assignment writes nothing else
SetAmount ==
    /\ pc = "report"
    /\ sk.on
    /\ \E a \in SkimAmounts \ {sk.amount} :
          sk' = [sk EXCEPT !.amount = a]
    /\ op' = "set_amount"
    /\ UNCHANGED <<pc, todo, model_time, horizon, substance, sc, data, error,
                   last_id, le, num_new, released, wd, burn, disp, removed,
                   skim_taken, skim_short>>

NextAmount ==
    \/ Next
    \/ SetAmount

InitAmount ==
    /\ InitStore
    /\ horizon = MaxSteps
    /\ substance = <<OilA>>
    /\ data = InitData(substance)
    /\ sk = InitSkimmer(TRUE, 4, <<0, 3 * TimeStep>>)
    /\ burn = InitWeatherer(TRUE, BurnWindow)
    /\ disp = InitWeatherer(TRUE, DispersionWindow)

SpecAmount == InitAmount /\ [][NextAmount]_vars

\* C37: the rate of the Skimmer is its amount divided by the length of its
\* window, also after amount has been assigned, and an active
\* weather_elements adds to skimmed that rate times the step duration times
\* the efficiency
C37_RateFollowsAmount ==
    [][/\ REq(sk'.rate, Norm(sk'.amount, sk'.active_stop - sk'.active_start))
       /\ (op' = "skimmer_weather" /\ sk.active /\ Len(le) > 0)
           => REq(RSub(wd'["skimmed"], wd["skimmed"]),
                  RMul(RMul(Norm(sk.amount, sk.active_stop - sk.active_start),
                            sk.timestep),
                       sk.efficiency))]_vars

----------------------------------------------------------------------------
(* the data of several substances *)

\* C38: once the partition holds more than one substance, no two of its
\* substances refer to one dict, and the array cached for a substance
\* holds no row of another substance
C38_CopiesDistinct ==
    (sc.part.valid /\ Len(sc.part.substances) > 1)
        => /\ \A x, y \in 1..Len(sc.part.substances) :
                 x # y => ~(/\ sc.part.data[x].dict = "shared"
                            /\ sc.part.data[y].dict = "shared")
           /\ \A x \in 1..Len(sc.part.substances) :
                 ({"substance", IterateArray} \subseteq DOMAIN sc.cols
                  /\ IterateArray \in DOMAIN sc.part.data[x].cache)
                     => \A i \in 1..Len(sc.cols[IterateArray].cells) :
                           (\E k \in 1..Len(sc.part.data[x].cache[
                                              IterateArray]) :
                               sc.part.data[x].cache[IterateArray][k] =
                                   sc.cols[IterateArray].cells[i])
                               => sc.cols["substance"].cells[i] = x - 1

----------------------------------------------------------------------------
(* the particles marked for skimming, for the rest of the run *)

\* C39: a particle marked skim is in the store with the status skim after
\* every call of the Skimmer, of Burn, of Dispersion, of
\* IntrinsicProps.update and of model_step_is_done, also after the window
\* of the Skimmer has closed; Burn and Dispersion leave its mass and
\* mass_components as they are; and the floating total an update writes
\* is the mass of the particles in the water only
C39_SkimIsFinal ==
    [][/\ \A i \in Rows :
             le[i].status = skim
                 => \E j \in 1..Len(le') :
                       /\ le'[j].id = le[i].id
                       /\ le'[j].status = skim
                       /\ op' \in {"burn_weather", "dispersion_weather"}
                             => /\ le'[j].mass = le[i].mass
                                /\ le'[j].mass_components =
                                       le[i].mass_components
       /\ (op' = "update" /\ error' = "none" /\ Len(le') > 0)
             => REq(wd'["floating"], MassWithStatus(le', in_water))]_vars

\* the window of the Skimmer has closed, Burn has taken mass, a step has
\* deleted a particle, and a particle that is still marked skim has been
\* through an update that counted floating mass
C39_Witness ==
    /\ op = "update"
    /\ error = "none"
    /\ model_time >= sk.active_stop
    /\ RGt(wd["burned"], R(0))
    /\ RGt(removed, R(0))
    /\ RGt(wd["floating"], R(0))
    /\ \E i \in Rows : le[i].status = skim /\ RGt(le[i].mass, R(0))

============================================================================
